---- MODULE Spec2Model ----
(***************************************************************************)
(* Zen Tasker: the task engine (ZenTaskManager), its persistence layer     *)
(* (ZenStorage over localStorage) and the namespaced storage wrapper       *)
(* (storage.js) used by the minimal Store; the ordering of filterTasks;    *)
(* ZenFilterManager.applySearch; the debounced operations of ZenTaskerApp, *)
(* the markdown App and WeatherUtils; the list renderTasks draws; the      *)
(* weather widget's loads and retries; the minimal Store; the values the   *)
(* engine hands out to its callers; the quiz, the calculator and the       *)
(* image slider.                                                           *)
(*                                                                         *)
(* A JavaScript string is kept run-length encoded: a sequence of runs      *)
(* [c |-> character, n |-> repeat count], adjacent runs having different   *)
(* characters.  The encoding is one-to-one with strings, and lets the      *)
(* 500-character limit of validateTaskText be exercised exactly.           *)
(* A timestamp (Date.now(), toISOString()) is the millisecond count.       *)
(* A handler runs to completion within one reading of the clock.           *)
(***************************************************************************)
EXTENDS Integers, Sequences, FiniteSets, TLC

VARIABLES
    tasks,               \* ZenTaskManager.tasks
    settings,            \* ZenTaskManager.settings
    isStorageAvailable,  \* ZenStorage.isStorageAvailable
    lsTasks,             \* localStorage['zenTasker_tasks']
    lsSettings,          \* localStorage['zenTasker_settings']
    lsState,             \* localStorage['zen-tasker:state']
    lsUsable,            \* localStorage can be accessed without throwing
    now,                 \* Date.now()
    lastOp,              \* the last call made: name, inputs' class, outcome
    lastArg,             \* the last call's first argument (a text, an id)
    lastRet,             \* the value the last call returned
    lastEvents,          \* events notified to the observers by the last call
    calls,               \* number of calls made so far
    observers,           \* ZenTaskManager.observers
    delivered,           \* the observer invocations of the last call, in order
    fnName,              \* the pure function applied, "none" before
    fnArgs,              \* its arguments
    fnResult,            \* what it returned
    dbKind,              \* the debounced operation under test, "none" if none
    dbTimer,             \* the handle it keeps (debounceTimers[key], timeout)
    timers,              \* the browser's pending timers and the time each has left
    nextTimerId,         \* the id the next setTimeout returns
    dbRuns,              \* how many times the debounced callback has run
    dbBursts,            \* how many bursts of input events have begun
    wxLoading,           \* WeatherApp appState.isLoading
    wxCompLoading,       \* WeatherComponents' own isLoading
    wxHasError,          \* appState.hasError
    wxRetryCount,        \* appState.retryCount
    wxLoads,             \* the loads waiting for their fetch, oldest first
    wxTimers,            \* the pending retry and error-recovery timers
    wxFailedRetries,     \* failed retries in a row since the last other call
    stState,             \* the Store module's state
    stLoaded,            \* what the store held under the key at module load
    stNextId,            \* the next id crypto.randomUUID() returns
    stOp,                \* the last Store call and whether it raised
    stRet,               \* what it returned
    hdSource,            \* the call or event that handed a value to a caller
    hdArrayOwn,          \* the handed array is the collection's own array
    hdElems,             \* per handed element, the collection index it is, 0 if a copy
    hdValue,             \* the handed value as the caller sees it
    qzScreen,            \* the quiz screen shown: "welcome", "quiz" or "result"
    qzPlayerName,        \* APP_STATE.playerName, by its length
    qzIndex,             \* APP_STATE.currentQuestionIndex
    qzScore,             \* APP_STATE.score
    qzAnswers,           \* APP_STATE.answers
    qzCompleted,         \* APP_STATE.isQuizCompleted
    qzClicks,            \* answer clicks made so far
    caCurrentValue,      \* Calculator's currentValue, a sequence of characters
    caPreviousValue,     \* its previousValue: '' or a number
    caOperator,          \* its operator, "null" if none
    caWaiting,           \* its waitingForOperand
    caKeys,              \* keys pressed so far
    caLastKey,           \* the last key: processAction's action and value
    caBefore,            \* the calculator's state before the last key
    slAutoPlay,          \* AuroraSlider config.autoPlay
    slInterval,          \* config.interval
    slIsPlaying,         \* isPlaying
    slIntervalId,        \* intervalId, 0 when null
    slIntervals,         \* the browser's active interval timers: id -> period
    slNextId,            \* the id the next setInterval returns
    slCurrentIndex,      \* currentIndex
    slTransitioning,     \* isTransitioning
    slPhase,             \* init(): "preloading" until preloadImages resolves
    slHidden             \* document.hidden

\* the task engine and its stores
engineVars == <<tasks, settings, isStorageAvailable, lsTasks, lsSettings, lsState,
                lsUsable, now, lastOp, lastArg, lastRet, lastEvents, calls,
                observers, delivered>>

\* a pure function under test
fnVars == <<fnName, fnArgs, fnResult>>

\* a debounced operation and the browser's timers
dbVars == <<dbKind, dbTimer, timers, nextTimerId, dbRuns, dbBursts>>

\* the weather widget's loads, retries and timers
weatherVars == <<wxLoading, wxCompLoading, wxHasError, wxRetryCount, wxLoads, wxTimers,
                 wxFailedRetries>>

\* the minimal Store
storeVars == <<stState, stLoaded, stNextId, stOp, stRet>>

\* a value handed out to a caller
handedVars == <<hdSource, hdArrayOwn, hdElems, hdValue>>

\* the quiz (state.js, ui.js, app.js of quiz-carnival)
quizVars == <<qzScreen, qzPlayerName, qzIndex, qzScore, qzAnswers, qzCompleted, qzClicks>>

\* the calculator module
calcVars == <<caCurrentValue, caPreviousValue, caOperator, caWaiting, caKeys, caLastKey,
              caBefore>>

\* the image slider
sliderVars == <<slAutoPlay, slInterval, slIsPlaying, slIntervalId, slIntervals, slNextId,
                slCurrentIndex, slTransitioning, slPhase, slHidden>>

demoVars == <<quizVars, calcVars, sliderVars>>

appVars == <<weatherVars, storeVars, handedVars, demoVars>>

\* what the task engine and its stores never touch
elsewhere == <<fnVars, dbVars, appVars>>

vars == <<engineVars, elsewhere>>

(***************************************************************************)
(* Bounds                                                                  *)
(***************************************************************************)
MaxTasks == 2
MaxClock == 1
MaxRand == 2
MaxCalls == 3
MaxObservers == 2
MaxSortLen == 3
MaxQueryLen == 3
MaxTimers == 4
DebounceDelay == 2
MaxQuestions == 3
MaxOptions == 2
MaxClicks == 4
MaxNameLength == 2
MaxKeys == 5
MaxDecimals == 3
MaxDigits == 3
MaxIntervals == 3
MaxSlides == 3

(***************************************************************************)
(* Strings                                                                 *)
(***************************************************************************)
Str(c, n) == <<[c |-> c, n |-> n]>>

IsSpace(c) == c \in {" ", "\t"}

RECURSIVE StrLen(_)
StrLen(s) == IF s = <<>> THEN 0 ELSE Head(s).n + StrLen(Tail(s))

RECURSIVE TrimStart(_)
TrimStart(s) ==
    IF s = <<>> THEN <<>>
    ELSE IF IsSpace(Head(s).c) THEN TrimStart(Tail(s)) ELSE s

RECURSIVE TrimEnd(_)
TrimEnd(s) ==
    IF s = <<>> THEN <<>>
    ELSE IF IsSpace(s[Len(s)].c) THEN TrimEnd(SubSeq(s, 1, Len(s) - 1)) ELSE s

\* String.prototype.trim
Trim(s) == TrimEnd(TrimStart(s))

\* replace(/\s+/g, ' ')
RECURSIVE CollapseSpaces(_)
CollapseSpaces(s) ==
    IF s = <<>> THEN <<>>
    ELSE IF IsSpace(Head(s).c)
         THEN Str(" ", 1) \o CollapseSpaces(TrimStart(Tail(s)))
         ELSE <<Head(s)>> \o CollapseSpaces(Tail(s))

(***************************************************************************)
(* localStorage values and JSON                                            *)
(***************************************************************************)
\* getItem(key): null when the key is absent, else the stored string, which
\* is either not JSON ("garbage") or the JSON text of an array or an object.
Absent == [kind |-> "absent", val |-> <<>>]
Garbage == [kind |-> "garbage", val |-> <<>>]

NullTs == -1

\* the JSON value null
JsNull == [jsnull |-> TRUE]

\* the value undefined where a string is expected: a run no string has
UndefinedText == <<[c |-> "undefined", n |-> 0]>>

\* a number where a text is expected, and where an id is expected (an id is
\* a pair whose clock part is -1 or more)
NumberText == <<[c |-> "number", n |-> 0]>>
NumberId == <<-2, 7>>

\* typeof v === 'string', for a text and for an id
IsStringText(s) == \A k \in 1..Len(s) : s[k].n >= 1
IsStringId(id) == id[1] # -2

\* { ...a, ...b }
Spread(a, b) ==
    [k \in (DOMAIN a) \cup (DOMAIN b) |-> IF k \in DOMAIN b THEN b[k] ELSE a[k]]

\* the value v of key k is undefined
IsUndefined(k, v) ==
    IF k = "text" THEN v = UndefinedText
    ELSE IF k = "priority" THEN v = "undefined"
    ELSE FALSE

\* JSON.stringify of one element that leaves out the keys holding null too
StringifyTaskNoNull(task) ==
    [k \in {j \in DOMAIN task :
                ~IsUndefined(j, task[j]) /\ ~(j = "completedAt" /\ task[j] = NullTs)}
        |-> task[k]]

\* JSON.stringify of one element of an array: a key whose value is
\* undefined is left out, null stays
StringifyTask(task) ==
    [k \in {j \in DOMAIN task : ~IsUndefined(j, task[j])} |-> task[k]]

\* JSON.parse of one element, as read afterwards: a key that was left out
\* reads as undefined
ParseEntry(e) == Spread([priority |-> "undefined"], e)

\* JSON.stringify of an array of plain records / of a plain record
StringifyArray(list) ==
    [kind |-> "array", val |-> [i \in 1..Len(list) |-> StringifyTask(list[i])]]
StringifyObject(obj) == [kind |-> "object", val |-> obj]

(***************************************************************************)
(* ZenStorage                                                              *)
(***************************************************************************)
\* checkStorageAvailability: setItem + removeItem of a probe key inside try
CheckStorageAvailability(usable, quotaOk) == usable /\ quotaOk

\* a filter of getTasks that does not look at the type of the id
ReadValidAnyId(e) ==
    /\ e # JsNull
    /\ "id" \in DOMAIN e
    /\ "text" \in DOMAIN e /\ IsStringText(e.text)

\* the filter of getTasks: task && typeof task.id === 'string' &&
\* typeof task.text === 'string'
ReadValid(e) ==
    /\ e # JsNull
    /\ "id" \in DOMAIN e /\ IsStringId(e.id)
    /\ "text" \in DOMAIN e /\ IsStringText(e.text)

\* the filter of saveTasks: task && task.id && task.text &&
\* typeof task.text === 'string'
WriteValid(e) ==
    /\ e # JsNull
    /\ "id" \in DOMAIN e /\ e.id # <<>>
    /\ "text" \in DOMAIN e /\ IsStringText(e.text) /\ e.text # <<>>

GetTasksOf(avail, usable, raw) ==
    IF ~avail THEN <<>>
    ELSE IF ~usable THEN <<>>                      \* getItem throws, caught
    ELSE IF raw.kind = "absent" THEN <<>>
    ELSE IF raw.kind # "array" THEN <<>>           \* parse / filter throws, caught
    ELSE LET kept == SelectSeq(raw.val, ReadValid)
         IN  [i \in 1..Len(kept) |-> ParseEntry(kept[i])]

GetTasks == GetTasksOf(isStorageAvailable, lsUsable, lsTasks)

\* saveTasks without the isStorageAvailable guard
SaveTasksOfUnguarded(avail, usable, raw, list, quotaOk) ==
    IF ~usable \/ ~quotaOk THEN [ok |-> FALSE, raw |-> raw]
    ELSE [ok |-> TRUE, raw |-> StringifyArray(SelectSeq(list, WriteValid))]

\* saveTasks(tasks): the success flag and the stored value afterwards
SaveTasksOf(avail, usable, raw, list, quotaOk) ==
    IF ~avail THEN [ok |-> FALSE, raw |-> raw]
    ELSE IF ~usable \/ ~quotaOk THEN [ok |-> FALSE, raw |-> raw]   \* setItem throws, caught
    ELSE [ok |-> TRUE, raw |-> StringifyArray(SelectSeq(list, WriteValid))]

SaveTasks(raw, list, quotaOk) ==
    SaveTasksOf(isStorageAvailable, lsUsable, raw, list, quotaOk)

\* findIndex that settles for the first task when none has the id
FindIndexOrFirst(list, id) ==
    IF \E i \in 1..Len(list) : list[i].id = id
    THEN CHOOSE i \in 1..Len(list) :
            list[i].id = id /\ \A j \in 1..(i - 1) : list[j].id # id
    ELSE IF list = <<>> THEN 0 ELSE 1

\* findIndex(task => task.id === taskId): 0 when there is none
FindIndex(list, id) ==
    IF \E i \in 1..Len(list) : list[i].id = id
    THEN CHOOSE i \in 1..Len(list) :
            list[i].id = id /\ \A j \in 1..(i - 1) : list[j].id # id
    ELSE 0

StorageAddTask(raw, task, quotaOk) ==
    SaveTasks(raw, Append(GetTasksOf(isStorageAvailable, lsUsable, raw), task), quotaOk)

StorageUpdateTask(raw, taskId, updates, quotaOk) ==
    LET list == GetTasksOf(isStorageAvailable, lsUsable, raw)
        i == FindIndex(list, taskId)
    IN  IF i = 0 THEN [ok |-> FALSE, raw |-> raw]
        ELSE SaveTasks(raw,
                 [list EXCEPT ![i] = [Spread(list[i], updates) EXCEPT !.id = taskId]],
                 quotaOk)

StorageDeleteTask(raw, taskId, quotaOk) ==
    LET list == GetTasksOf(isStorageAvailable, lsUsable, raw)
        keep(e) == e.id # taskId
    IN  SaveTasks(raw, SelectSeq(list, keep), quotaOk)

GetDefaultSettings ==
    [theme |-> "zen", defaultPriority |-> "medium", autoSort |-> TRUE,
     showCompletedTasks |-> TRUE, soundEnabled |-> FALSE, animationsEnabled |-> TRUE]

\* getSettings that hands back the stored object as it is
GetSettingsOfUnmerged(avail, usable, raw) ==
    IF ~avail \/ ~usable \/ raw.kind # "object" THEN GetDefaultSettings ELSE raw.val

\* storage.getSettings(): { ...defaults, ...stored }
GetSettingsOf(avail, usable, raw) ==
    IF ~avail THEN GetDefaultSettings
    ELSE IF ~usable THEN GetDefaultSettings
    ELSE IF raw.kind = "absent" THEN GetDefaultSettings
    ELSE IF raw.kind # "object" THEN GetDefaultSettings
    ELSE Spread(GetDefaultSettings, raw.val)

GetSettings == GetSettingsOf(isStorageAvailable, lsUsable, lsSettings)

SaveSettingsOf(avail, usable, raw, obj, quotaOk) ==
    IF ~avail THEN [ok |-> FALSE, raw |-> raw]
    ELSE IF ~usable \/ ~quotaOk THEN [ok |-> FALSE, raw |-> raw]
    ELSE [ok |-> TRUE, raw |-> StringifyObject(obj)]

(***************************************************************************)
(* ZenTaskManager: pure helpers                                            *)
(***************************************************************************)
MaxTextLength == 500

\* validateTaskText without the upper length limit
ValidateTaskTextNoLimit(text) ==
    IF text.type # "string" THEN [ok |-> FALSE, s |-> <<>>]
    ELSE LET trimmed == Trim(text.s)
         IN  IF StrLen(trimmed) = 0
             THEN [ok |-> FALSE, s |-> <<>>]
             ELSE [ok |-> TRUE, s |-> CollapseSpaces(trimmed)]

\* validateTaskText: a text argument is [type, s]; the result is null
\* (ok = FALSE) or the cleaned string
ValidateTaskText(text) ==
    IF text.type # "string" THEN [ok |-> FALSE, s |-> <<>>]
    ELSE LET trimmed == Trim(text.s)
         IN  IF StrLen(trimmed) = 0 \/ StrLen(trimmed) > MaxTextLength
             THEN [ok |-> FALSE, s |-> <<>>]
             ELSE [ok |-> TRUE, s |-> CollapseSpaces(trimmed)]

ValidatePriority(priority) ==
    IF priority \in {"low", "medium", "high"} THEN priority ELSE "medium"

\* `task_${Date.now()}_${Math.random()...}`: the pair (clock, random part)
GenerateId(r) == <<now, r>>

\* const priorityOrder = { high: 3, medium: 2, low: 1 }
PriorityOrder == [high |-> 3, medium |-> 2, low |-> 1]

\* the comparator of sortTasks putting the oldest first
CompareTasksOldestFirst(a, b) ==
    IF a.completed # b.completed THEN (IF a.completed THEN 1 ELSE -1)
    ELSE IF a.priority # b.priority
         THEN IF {a.priority, b.priority} \subseteq DOMAIN PriorityOrder
              THEN PriorityOrder[b.priority] - PriorityOrder[a.priority]
              ELSE 0
         ELSE a.createdAt - b.createdAt

\* the comparator of sortTasks; a priority outside the table makes the
\* difference NaN, which Array.prototype.sort takes as 0
CompareTasks(a, b) ==
    IF a.completed # b.completed THEN (IF a.completed THEN 1 ELSE -1)
    ELSE IF a.priority # b.priority
         THEN IF {a.priority, b.priority} \subseteq DOMAIN PriorityOrder
              THEN PriorityOrder[b.priority] - PriorityOrder[a.priority]
              ELSE 0
         ELSE b.createdAt - a.createdAt

\* Array.prototype.sort is stable: insertion keeps equal elements in order
RECURSIVE SortInsert(_, _)
SortInsert(sorted, x) ==
    IF sorted = <<>> THEN <<x>>
    ELSE IF CompareTasks(sorted[Len(sorted)], x) > 0
         THEN Append(SortInsert(SubSeq(sorted, 1, Len(sorted) - 1), x), sorted[Len(sorted)])
         ELSE Append(sorted, x)

RECURSIVE SortFrom(_, _)
SortFrom(sorted, rest) ==
    IF rest = <<>> THEN sorted ELSE SortFrom(SortInsert(sorted, Head(rest)), Tail(rest))

SortTasks(list) == SortFrom(<<>>, list)

\* the 'active' predicate letting every task through
IsActiveAll(t) == TRUE

IsActive(t) == ~t.completed
IsCompleted(t) == t.completed
IsHighActive(t) == t.priority = "high" /\ ~t.completed
IsMediumActive(t) == t.priority = "medium" /\ ~t.completed
IsLowActive(t) == t.priority = "low" /\ ~t.completed

\* filterTasks(filterType) on the collection ts with settings.autoSort
FilterTasksOf(ts, filterType, autoSort) ==
    LET filtered ==
            CASE filterType = "active" -> SelectSeq(ts, IsActive)
              [] filterType = "completed" -> SelectSeq(ts, IsCompleted)
              [] filterType = "high" -> SelectSeq(ts, IsHighActive)
              [] filterType = "medium" -> SelectSeq(ts, IsMediumActive)
              [] filterType = "low" -> SelectSeq(ts, IsLowActive)
              [] OTHER -> ts
    IN  IF autoSort THEN SortTasks(filtered) ELSE filtered

FilterTasks(filterType) == FilterTasksOf(tasks, filterType, settings.autoSort)

\* filters.js byFilter(filter)(task), and Store.visible() over a collection
ByFilter(filter, task) ==
    CASE filter = "active" -> ~task.completed
      [] filter = "completed" -> task.completed
      [] OTHER -> TRUE

VisibleOf(ts, filter) ==
    LET keep(t) == ByFilter(filter, t) IN SelectSeq(ts, keep)

(***************************************************************************)
(* ZenTaskManager: the mutating operations.  Each yields the collection    *)
(* and the stored value afterwards, the result and the events notified.    *)
(***************************************************************************)
Outcome(ts, raw, result, ret, events, valid, found, wrote) ==
    [tasks |-> ts, raw |-> raw, result |-> result, ret |-> ret, events |-> events,
     valid |-> valid, found |-> found, wrote |-> wrote]

\* this.tasks = this.tasks.filter(t => t.id !== task.id)
CreateRollback(list, task) ==
    LET other(t) == t.id # task.id IN SelectSeq(list, other)

\* the revert left out
UpdateRollbackSkipped(list, i, currentTask) == list

\* this.tasks[taskIndex] = currentTask
UpdateRollback(list, i, currentTask) == [list EXCEPT ![i] = currentTask]

CreateTaskOp(ts, raw, text, priority, r, quotaOk) ==
    LET v == ValidateTaskText(text)
        task == [id |-> GenerateId(r), text |-> v.s,
                 priority |-> ValidatePriority(priority), completed |-> FALSE,
                 createdAt |-> now, updatedAt |-> now, completedAt |-> NullTs]
        saved == StorageAddTask(raw, task, quotaOk)
    IN  IF ~v.ok
        THEN Outcome(ts, raw, "null", <<>>, <<"error">>, FALSE, FALSE, FALSE)
        ELSE IF ~saved.ok
        THEN Outcome(CreateRollback(Append(ts, task), task), raw, "null", <<>>,
                     <<"error">>, TRUE, FALSE, FALSE)
        ELSE Outcome(Append(ts, task), saved.raw, "task", <<task>>,
                     <<"taskCreated", "tasksUpdated">>, TRUE, FALSE, TRUE)

\* the values { ...updates } copies into the task: every own key of updates,
\* those whose value is undefined included
SpreadValues(updates) ==
    [k \in DOMAIN updates |-> IF k = "text" THEN updates[k].s ELSE updates[k]]

UpdateTaskOp(ts, raw, taskId, updates, quotaOk) ==
    LET i == FindIndex(ts, taskId)
        currentTask == ts[i]
        \* updates.text !== undefined
        hasText == "text" \in DOMAIN updates /\ updates.text.type # "undefined"
        v == ValidateTaskText(updates.text)
        merged == [Spread(currentTask, SpreadValues(updates))
                      EXCEPT !.id = taskId, !.updatedAt = now]
        withText == IF hasText THEN [merged EXCEPT !.text = v.s] ELSE merged
        withPriority ==
            \* updates.priority !== undefined
            IF "priority" \in DOMAIN updates /\ updates.priority # "undefined"
            THEN [withText EXCEPT !.priority = ValidatePriority(updates.priority)]
            ELSE withText
        updatedTask ==
            IF "completed" \in DOMAIN updates /\ updates.completed # currentTask.completed
            THEN [withPriority EXCEPT
                    !.completedAt = IF updates.completed THEN now ELSE NullTs]
            ELSE withPriority
        saved == StorageUpdateTask(raw, taskId, updatedTask, quotaOk)
    IN  IF i = 0
        THEN Outcome(ts, raw, "false", <<>>, <<"error">>, TRUE, FALSE, FALSE)
        ELSE IF hasText /\ ~v.ok
        THEN Outcome(ts, raw, "false", <<>>, <<"error">>, FALSE, TRUE, FALSE)
        ELSE IF ~saved.ok
        THEN Outcome(UpdateRollback([ts EXCEPT ![i] = updatedTask], i, currentTask), raw,
                     "false", <<>>, <<"error">>, TRUE, TRUE, FALSE)
        ELSE Outcome([ts EXCEPT ![i] = updatedTask], saved.raw, "true", <<>>,
                     <<"taskUpdated", "tasksUpdated">>, TRUE, TRUE, TRUE)

\* splice(index, 0, item) with a 0-based index: a start past the end appends
Splice(list, index0, item) ==
    LET at == IF index0 > Len(list) THEN Len(list) ELSE index0
    IN  SubSeq(list, 1, at) \o <<item>> \o SubSeq(list, at + 1, Len(list))

\* deleteTask notifying before it knows whether the store took the change
DeleteTaskOpEager(ts, raw, taskId, quotaOk) ==
    LET i == FindIndex(ts, taskId)
        deletedTask == ts[i]
        other(t) == t.id # taskId
        removed == SelectSeq(ts, other)
        deleted == StorageDeleteTask(raw, taskId, quotaOk)
    IN  IF i = 0
        THEN Outcome(ts, raw, "false", <<>>, <<"error">>, TRUE, FALSE, FALSE)
        ELSE IF ~deleted.ok
        THEN Outcome(Splice(removed, i - 1, deletedTask), raw, "false", <<>>,
                     <<"taskDeleted", "tasksUpdated", "error">>, TRUE, TRUE, FALSE)
        ELSE Outcome(removed, deleted.raw, "true", <<>>,
                     <<"taskDeleted", "tasksUpdated">>, TRUE, TRUE, TRUE)

DeleteTaskOp(ts, raw, taskId, quotaOk) ==
    LET i == FindIndex(ts, taskId)
        deletedTask == ts[i]
        other(t) == t.id # taskId
        removed == SelectSeq(ts, other)
        deleted == StorageDeleteTask(raw, taskId, quotaOk)
    IN  IF i = 0
        THEN Outcome(ts, raw, "false", <<>>, <<"error">>, TRUE, FALSE, FALSE)
        ELSE IF ~deleted.ok
        THEN Outcome(Splice(removed, i - 1, deletedTask), raw, "false", <<>>,
                     <<"error">>, TRUE, TRUE, FALSE)
        ELSE Outcome(removed, deleted.raw, "true", <<>>,
                     <<"taskDeleted", "tasksUpdated">>, TRUE, TRUE, TRUE)

\* a toggleTask that always sets completed
ToggleTaskOpSetOnly(ts, raw, taskId, quotaOk) ==
    LET i == FindIndex(ts, taskId)
    IN  IF i = 0
        THEN Outcome(ts, raw, "false", <<>>, <<>>, TRUE, FALSE, FALSE)
        ELSE UpdateTaskOp(ts, raw, taskId, [completed |-> TRUE], quotaOk)

\* toggleTask(taskId)
ToggleTaskOp(ts, raw, taskId, quotaOk) ==
    LET i == FindIndex(ts, taskId)
    IN  IF i = 0
        THEN Outcome(ts, raw, "false", <<>>, <<>>, TRUE, FALSE, FALSE)
        ELSE UpdateTaskOp(ts, raw, taskId, [completed |-> ~ts[i].completed], quotaOk)

\* Math.round((completed / total) * 100) for 0 <= completed <= total, total > 0
RoundedPercent(completed, total) == (200 * completed + total) \div (2 * total)

\* a getStats that counts every task as active
GetStatsOfAllActive(ts) ==
    [total |-> Len(ts), completed |-> Len(SelectSeq(ts, IsCompleted)), active |-> Len(ts),
     byPriority |-> [high |-> 0, medium |-> 0, low |-> 0], completionRate |-> 0]

\* getStats() on the collection ts
GetStatsOf(ts) ==
    LET total == Len(ts)
        completed == Len(SelectSeq(ts, IsCompleted))
    IN  [total |-> total,
         completed |-> completed,
         active |-> total - completed,
         byPriority |-> [high |-> Len(SelectSeq(ts, IsHighActive)),
                         medium |-> Len(SelectSeq(ts, IsMediumActive)),
                         low |-> Len(SelectSeq(ts, IsLowActive))],
         completionRate |-> IF total > 0 THEN RoundedPercent(completed, total) ELSE 0]

\* the forEach of clearCompleted over the snapshot completedTasks; oks[k]
\* is the outcome of the storage write of the k-th deleteTask
RECURSIVE ClearLoop(_, _, _, _, _, _)
ClearLoop(ts, raw, events, completedTasks, k, oks) ==
    IF k > Len(completedTasks) THEN [tasks |-> ts, raw |-> raw, events |-> events]
    ELSE LET d == DeleteTaskOp(ts, raw, completedTasks[k].id, oks[k])
         IN  ClearLoop(d.tasks, d.raw, events \o d.events, completedTasks, k + 1, oks)

ClearCompletedOp(ts, raw, oks) ==
    LET completedTasks == SelectSeq(ts, IsCompleted)
        clearedCount == Len(completedTasks)
        loop == ClearLoop(ts, raw, <<>>, completedTasks, 1, oks)
    IN  [tasks |-> loop.tasks, raw |-> loop.raw, count |-> clearedCount,
         events |-> IF clearedCount > 0
                    THEN Append(loop.events, "completedCleared") ELSE loop.events]

(***************************************************************************)
(* Inputs                                                                  *)
(***************************************************************************)
JsString(s) == [type |-> "string", s |-> s]
JsNumber == [type |-> "number", s |-> <<>>]

JsUndefined == [type |-> "undefined", s |-> UndefinedText]

TextBlank == JsString(Str(" ", 3))
TextUntidy == JsString(Str(" ", 1) \o Str("a", 1) \o Str(" ", 1) \o Str("\t", 1)
                        \o Str("b", 1) \o Str(" ", 2))
TextMax == JsString(Str(" ", 2) \o Str("a", MaxTextLength))
TextTooLong == JsString(Str("a", MaxTextLength + 1))

TextInputs == {TextBlank, TextUntidy, TextTooLong, JsNumber}

\* "undefined": the argument left out or a key never set
PriorityInputs == {"high", "urgent", "undefined"}

\* an id no task ever has
UnknownId == <<-1, 0>>

\* the ids a caller can name: those on display and one that is not there
IdInputs == {tasks[i].id : i \in 1..Len(tasks)} \cup {UnknownId}

UpdateInputs ==
    {[text |-> t] : t \in {TextMax, TextBlank, JsUndefined}}
    \cup {[priority |-> p] : p \in {"low", "urgent", "undefined"}}
    \cup {[createdAt |-> 0]}
    \cup {[completed |-> b] : b \in BOOLEAN}
    \cup {[completedAt |-> c] : c \in {NullTs, 0}}

Op(name, case, valid, found, wrote, result) ==
    [name |-> name, case |-> case, valid |-> valid, found |-> found,
     wrote |-> wrote, result |-> result]

\* what addObserver can be handed: two functions, one of which throws
\* whenever it is called, and a value that is not a function
ObserverInputs ==
    {[type |-> "function", fn |-> "a", throws |-> FALSE],
     [type |-> "function", fn |-> "b", throws |-> TRUE],
     [type |-> "object", fn |-> "c", throws |-> FALSE]}

(***************************************************************************)
(* Observers                                                               *)
(***************************************************************************)
AddObserverOf(obs, observer) ==
    IF observer.type = "function" THEN Append(obs, observer) ELSE obs

RemoveObserverOf(obs, observer) ==
    LET other(o) == o # observer IN SelectSeq(obs, other)

Invocation(observer, event) == [observer |-> observer.fn, event |-> event]

\* observers.forEach without the try/catch: the first throw ends the loop
NotifyObserversUncaught(obs, event) ==
    LET throwing == {i \in 1..Len(obs) : obs[i].throws}
        upto == IF throwing = {} THEN Len(obs)
                ELSE CHOOSE i \in throwing : \A j \in throwing : i <= j
    IN  [log |-> [i \in 1..upto |-> Invocation(obs[i], event)],
         raised |-> throwing # {}]

\* observers.forEach(observer => { try { observer(event, data) } catch ... })
NotifyObservers(obs, event) ==
    [log |-> [i \in 1..Len(obs) |-> Invocation(obs[i], event)], raised |-> FALSE]

\* the notifyObservers calls of one operation, one after the other; an
\* exception leaving notifyObservers ends the operation
RECURSIVE NotifyAll(_, _)
NotifyAll(obs, events) ==
    IF events = <<>> THEN [log |-> <<>>, raised |-> FALSE]
    ELSE LET first == NotifyObservers(obs, Head(events))
             rest == NotifyAll(obs, Tail(events))
         IN  IF first.raised THEN first
             ELSE [log |-> first.log \o rest.log, raised |-> rest.raised]

(***************************************************************************)
(* The task engine: one action per public operation                        *)
(***************************************************************************)
EngineFrame ==
    UNCHANGED <<settings, isStorageAvailable, lsSettings, lsState, lsUsable, now,
                elsewhere>>

Apply(name, arg, o) ==
    LET n == NotifyAll(observers, o.events)
    IN  /\ tasks' = o.tasks
        /\ lastArg' = arg
        /\ lsTasks' = o.raw
        /\ lastOp' = Op(name, "", o.valid, o.found, o.wrote,
                        IF n.raised THEN "raised" ELSE o.result)
        /\ lastRet' = IF n.raised THEN <<>> ELSE o.ret
        /\ lastEvents' = o.events
        /\ delivered' = n.log
        /\ calls' = calls + 1
        /\ UNCHANGED observers
        /\ EngineFrame

CreateTask ==
    /\ calls < MaxCalls
    /\ Len(tasks) < MaxTasks
    /\ Len(lsTasks.val) < MaxTasks
    /\ \E text \in TextInputs, priority \in PriorityInputs,
          r \in 0..(MaxRand - 1), quotaOk \in BOOLEAN :
            Apply("createTask", <<text>>, CreateTaskOp(tasks, lsTasks, text, priority, r, quotaOk))

UpdateTask ==
    /\ calls < MaxCalls
    /\ \E taskId \in IdInputs, updates \in UpdateInputs, quotaOk \in BOOLEAN :
        Apply("updateTask", <<taskId>>, UpdateTaskOp(tasks, lsTasks, taskId, updates, quotaOk))

DeleteTask ==
    /\ calls < MaxCalls
    /\ \E taskId \in IdInputs, quotaOk \in BOOLEAN :
        Apply("deleteTask", <<taskId>>, DeleteTaskOp(tasks, lsTasks, taskId, quotaOk))

ToggleTask ==
    /\ calls < MaxCalls
    /\ \E taskId \in IdInputs, quotaOk \in BOOLEAN :
        Apply("toggleTask", <<taskId>>, ToggleTaskOp(tasks, lsTasks, taskId, quotaOk))

ClearCompleted ==
    /\ calls < MaxCalls
    /\ \E oks \in [1..MaxTasks -> BOOLEAN] :
        LET c == ClearCompletedOp(tasks, lsTasks, oks)
        IN  Apply("clearCompleted", <<>>,
                  Outcome(c.tasks, c.raw, "count", <<c.count>>, c.events,
                          TRUE, c.count > 0, c.tasks # tasks))

GetStats ==
    /\ calls < MaxCalls
    /\ lastOp' = Op("getStats", "", TRUE, FALSE, FALSE, "stats")
    /\ lastArg' = <<>>
    /\ lastRet' = <<GetStatsOf(tasks)>>
    /\ lastEvents' = <<>>
    /\ delivered' = <<>>
    /\ calls' = calls + 1
    /\ UNCHANGED <<tasks, lsTasks, observers>>
    /\ EngineFrame

AddObserver ==
    /\ calls < MaxCalls
    /\ Len(observers) < MaxObservers
    /\ \E observer \in ObserverInputs :
        /\ observers' = AddObserverOf(observers, observer)
        /\ lastOp' = Op("addObserver", "", TRUE, FALSE, FALSE, "undefined")
        /\ lastArg' = <<observer>>
        /\ lastRet' = <<>>
        /\ lastEvents' = <<>>
        /\ delivered' = <<>>
        /\ calls' = calls + 1
        /\ UNCHANGED <<tasks, lsTasks>>
        /\ EngineFrame

RemoveObserver ==
    /\ calls < MaxCalls
    /\ \E observer \in ObserverInputs :
        /\ observers' = RemoveObserverOf(observers, observer)
        /\ lastOp' = Op("removeObserver", "", TRUE, FALSE, FALSE, "undefined")
        /\ lastArg' = <<observer>>
        /\ lastRet' = <<>>
        /\ lastEvents' = <<>>
        /\ delivered' = <<>>
        /\ calls' = calls + 1
        /\ UNCHANGED <<tasks, lsTasks>>
        /\ EngineFrame

\* a page load: new ZenStorage() probes the store, then new ZenTaskManager()
\* starts with no observers and runs init(): loadTasks (which notifies
\* 'tasksLoaded') and loadSettings
Reload ==
    /\ calls < MaxCalls
    /\ \E usable \in BOOLEAN, quotaOk \in BOOLEAN :
        LET avail == CheckStorageAvailability(usable, quotaOk)
        IN  /\ lsUsable' = usable
            /\ isStorageAvailable' = avail
            /\ tasks' = GetTasksOf(avail, usable, lsTasks)
            /\ settings' = GetSettingsOf(avail, usable, lsSettings)
            /\ lastOp' = Op("load", "", TRUE, FALSE, FALSE, "none")
            /\ lastArg' = <<>>
            /\ lastRet' = <<>>
            /\ lastEvents' = <<"tasksLoaded">>
            /\ observers' = <<>>
            /\ delivered' = <<>>
            /\ calls' = calls + 1
            /\ UNCHANGED <<lsTasks, lsSettings, lsState, now, elsewhere>>

\* the clock advances between handlers
Tick ==
    /\ now < MaxClock
    /\ now' = now + 1
    /\ UNCHANGED <<tasks, settings, isStorageAvailable, lsTasks, lsSettings,
                   lsState, lsUsable, lastOp, lastArg, lastRet, lastEvents, calls,
                   observers, delivered, elsewhere>>

\* no pure function is under test
FnIdle ==
    /\ fnName = "none"
    /\ fnArgs = <<>>
    /\ fnResult = <<>>

\* null, as a timer handle
NoTimer == 0

\* no debounced operation is under test, no timer was ever set
DebounceIdle ==
    /\ dbKind = "none"
    /\ dbTimer = NoTimer
    /\ timers = {}
    /\ nextTimerId = 1
    /\ dbRuns = 0
    /\ dbBursts = 0

\* the weather widget is not under test: initialized, nothing loading
WeatherIdle ==
    /\ wxLoading = FALSE
    /\ wxCompLoading = FALSE
    /\ wxHasError = FALSE
    /\ wxRetryCount = 0
    /\ wxLoads = <<>>
    /\ wxTimers = <<>>
    /\ wxFailedRetries = 0

\* the Store module is not loaded
StoreIdle ==
    /\ stState = <<>>
    /\ stLoaded = "none"
    /\ stNextId = 0
    /\ stOp = [name |-> "none", blank |-> FALSE, quotaOk |-> TRUE, result |-> "none"]
    /\ stRet = <<>>

\* no value was handed out
HandedIdle ==
    /\ hdSource = "none"
    /\ hdArrayOwn = FALSE
    /\ hdElems = <<>>
    /\ hdValue = <<>>

\* the quiz page is not open
QuizIdle ==
    /\ qzScreen = "none"
    /\ qzPlayerName = 0
    /\ qzIndex = 0
    /\ qzScore = 0
    /\ qzAnswers = <<>>
    /\ qzCompleted = FALSE
    /\ qzClicks = 0

\* the calculator page is not open
CalcIdle ==
    /\ caCurrentValue = <<"0">>
    /\ caPreviousValue = [kind |-> "empty", m |-> 0, e |-> 0]
    /\ caOperator = "null"
    /\ caWaiting = FALSE
    /\ caKeys = 0
    /\ caLastKey = [action |-> "none", value |-> ""]
    /\ caBefore = [currentValue |-> <<"0">>,
                   previousValue |-> [kind |-> "empty", m |-> 0, e |-> 0],
                   operator |-> "null", waitingForOperand |-> FALSE]

\* no slider was constructed
SliderIdle ==
    /\ slAutoPlay = FALSE
    /\ slInterval = 0
    /\ slIsPlaying = FALSE
    /\ slIntervalId = 0
    /\ slIntervals = {}
    /\ slNextId = 1
    /\ slCurrentIndex = 0
    /\ slTransitioning = FALSE
    /\ slPhase = "none"
    /\ slHidden = FALSE

DemosIdle == QuizIdle /\ CalcIdle /\ SliderIdle

AppsIdle == WeatherIdle /\ StoreIdle /\ HandedIdle /\ DemosIdle

ElsewhereInit == FnIdle /\ DebounceIdle /\ AppsIdle

Init ==
    /\ lsUsable \in BOOLEAN
    /\ isStorageAvailable \in {CheckStorageAvailability(lsUsable, q) : q \in BOOLEAN}
    /\ lsTasks \in {Absent, Garbage}
    /\ lsSettings \in {Absent, StringifyObject([autoSort |-> FALSE])}
    /\ lsState = Absent
    /\ tasks = GetTasksOf(isStorageAvailable, lsUsable, lsTasks)
    /\ settings = GetSettingsOf(isStorageAvailable, lsUsable, lsSettings)
    /\ now = 0
    /\ lastOp = Op("load", "", TRUE, FALSE, FALSE, "none")
    /\ lastArg = <<>>
    /\ lastRet = <<>>
    /\ lastEvents = <<"tasksLoaded">>
    /\ calls = 0
    /\ observers = <<>>
    /\ delivered = <<>>
    /\ ElsewhereInit

Next ==
    \/ CreateTask
    \/ UpdateTask
    \/ DeleteTask
    \/ ToggleTask
    \/ ClearCompleted
    \/ GetStats
    \/ AddObserver
    \/ RemoveObserver
    \/ Reload
    \/ Tick

Spec == Init /\ [][Next]_vars

(***************************************************************************)
(* storage.js: the namespaced wrapper, on the key `zen-tasker:state`       *)
(***************************************************************************)
\* storage.get(key, fallback): getItem is outside safeJSON's try, and
\* JSON.parse(null) is null
WrapGetOf(usable, raw, fallback) ==
    IF ~usable THEN [raised |-> TRUE, val |-> JsNull]
    ELSE IF raw.kind = "absent" THEN [raised |-> FALSE, val |-> JsNull]
    ELSE IF raw.kind = "garbage" THEN [raised |-> FALSE, val |-> fallback]
    ELSE [raised |-> FALSE, val |-> raw.val]

\* storage.set(key, value): no try, no return value
WrapSetOf(usable, raw, value, quotaOk) ==
    IF ~usable \/ ~quotaOk THEN [raised |-> TRUE, raw |-> raw]
    ELSE [raised |-> FALSE, raw |-> StringifyObject(value)]

\* clearAll: removeItem of both keys inside try
ClearAllOf(avail, usable, rawTasks, rawSettings) ==
    IF ~avail THEN [ok |-> FALSE, rawTasks |-> rawTasks, rawSettings |-> rawSettings]
    ELSE IF ~usable THEN [ok |-> FALSE, rawTasks |-> rawTasks, rawSettings |-> rawSettings]
    ELSE [ok |-> TRUE, rawTasks |-> Absent, rawSettings |-> Absent]

(***************************************************************************)
(* The persistence layer driven directly                                   *)
(***************************************************************************)
SampleTask(r, done) ==
    [id |-> <<0, r>>, text |-> Str("a", 1), priority |-> "medium", completed |-> done,
     createdAt |-> 0, updatedAt |-> 0, completedAt |-> IF done THEN 0 ELSE NullTs]

TaskListInputs ==
    {<<>>, <<SampleTask(0, FALSE)>>, <<SampleTask(0, FALSE), SampleTask(1, TRUE)>>,
     <<[SampleTask(0, FALSE) EXCEPT !.id = NumberId], SampleTask(1, TRUE)>>,
     <<SampleTask(0, FALSE), [SampleTask(1, TRUE) EXCEPT !.text = UndefinedText]>>}

\* a persisted array another writer left behind: null, an entry without id,
\* with a number as id, without text, with a number as text, among entries
\* of the right shape
MixedArray ==
    [kind |-> "array",
     val |-> <<JsNull,
               SampleTask(1, TRUE),
               [text |-> Str("a", 1), priority |-> "low"],
               [SampleTask(2, FALSE) EXCEPT !.id = NumberId],
               [id |-> <<0, 2>>, priority |-> "low"],
               SampleTask(0, FALSE),
               [SampleTask(2, FALSE) EXCEPT !.text = NumberText]>>]

SettingsInputs == {<<>>, [autoSort |-> FALSE], [theme |-> "dark", soundEnabled |-> TRUE]}

\* the `initial` state of the Store and a state with one task
InitialState == [tasks |-> <<>>, filter |-> "all"]
StateInputs ==
    {InitialState,
     [tasks |-> <<[id |-> <<0, 0>>, title |-> Str("a", 1), completed |-> FALSE]>>,
      filter |-> "active"]}

ReadCase(guarded, raw) ==
    IF (guarded /\ ~isStorageAvailable) \/ ~lsUsable THEN "unavailable"
    ELSE IF raw.kind \in {"absent", "garbage"} THEN raw.kind ELSE "ok"

WriteCase(guarded, quotaOk) ==
    IF (guarded /\ ~isStorageAvailable) \/ ~lsUsable THEN "unavailable"
    ELSE IF ~quotaOk THEN "rejected" ELSE "ok"

Bool(b) == IF b THEN "true" ELSE "false"

StFrame == UNCHANGED <<tasks, settings, isStorageAvailable, lsUsable, now,
                       lastArg, lastEvents, calls, observers, delivered, elsewhere>>

StGetTasks ==
    /\ lastRet' = <<GetTasks>>
    /\ lastOp' = Op("getTasks", ReadCase(TRUE, lsTasks), TRUE, FALSE, FALSE,
                    IF GetTasks = <<>> THEN "fallback" ELSE "value")
    /\ UNCHANGED <<lsTasks, lsSettings, lsState>>
    /\ StFrame

StGetSettings ==
    /\ lastRet' = <<GetSettings>>
    /\ lastOp' = Op("getSettings", ReadCase(TRUE, lsSettings), TRUE, FALSE, FALSE,
                    IF GetSettings = GetDefaultSettings THEN "fallback" ELSE "value")
    /\ UNCHANGED <<lsTasks, lsSettings, lsState>>
    /\ StFrame

StSaveTasks ==
    \E list \in TaskListInputs, quotaOk \in BOOLEAN :
        LET saved == SaveTasks(lsTasks, list, quotaOk)
        IN  /\ lsTasks' = saved.raw
            /\ lastRet' = <<list>>
            /\ lastOp' = Op("saveTasks", WriteCase(TRUE, quotaOk), TRUE, FALSE,
                            saved.raw = StringifyArray(list), Bool(saved.ok))
            /\ UNCHANGED <<lsSettings, lsState>>
            /\ StFrame

StSaveSettings ==
    \E obj \in SettingsInputs, quotaOk \in BOOLEAN :
        LET saved == SaveSettingsOf(isStorageAvailable, lsUsable, lsSettings, obj, quotaOk)
        IN  /\ lsSettings' = saved.raw
            /\ lastRet' = <<obj>>
            /\ lastOp' = Op("saveSettings", WriteCase(TRUE, quotaOk), TRUE, FALSE,
                            saved.raw = StringifyObject(obj), Bool(saved.ok))
            /\ UNCHANGED <<lsTasks, lsState>>
            /\ StFrame

StClearAll ==
    LET c == ClearAllOf(isStorageAvailable, lsUsable, lsTasks, lsSettings)
    IN  /\ lsTasks' = c.rawTasks
        /\ lsSettings' = c.rawSettings
        /\ lastRet' = <<>>
        /\ lastOp' = Op("clearAll", WriteCase(TRUE, TRUE), TRUE, FALSE, c.ok, Bool(c.ok))
        /\ UNCHANGED lsState
        /\ StFrame

WrapGet ==
    \E fallback \in {JsNull, InitialState} :
        LET g == WrapGetOf(lsUsable, lsState, fallback)
        IN  /\ lastRet' = <<fallback, g.val>>
            /\ lastOp' = Op("storage.get", ReadCase(FALSE, lsState), TRUE, FALSE, FALSE,
                            IF g.raised THEN "raised"
                            ELSE IF g.val = fallback THEN "fallback" ELSE "value")
            /\ UNCHANGED <<lsTasks, lsSettings, lsState>>
            /\ StFrame

WrapSet ==
    \E value \in StateInputs, quotaOk \in BOOLEAN :
        LET w == WrapSetOf(lsUsable, lsState, value, quotaOk)
        IN  /\ lsState' = w.raw
            /\ lastRet' = <<value>>
            /\ lastOp' = Op("storage.set", WriteCase(FALSE, quotaOk), TRUE, FALSE,
                            w.raw = StringifyObject(value),
                            IF w.raised THEN "raised" ELSE "undefined")
            /\ UNCHANGED <<lsTasks, lsSettings>>
            /\ StFrame

\* the browser's store stops or starts working (disabled, sandboxed, restored)
EnvSetUsable ==
    /\ lsUsable' = ~lsUsable
    /\ UNCHANGED <<tasks, settings, isStorageAvailable, lsTasks, lsSettings, lsState,
                   now, lastOp, lastArg, lastRet, lastEvents, calls,
                   observers, delivered, elsewhere>>

StorageInit ==
    /\ lsUsable \in BOOLEAN
    /\ isStorageAvailable \in {CheckStorageAvailability(lsUsable, q) : q \in BOOLEAN}
    /\ lsTasks \in {Absent, Garbage, MixedArray}
    /\ lsSettings \in {Absent, Garbage}
    /\ lsState \in {Absent, Garbage}
    /\ tasks = <<>>
    /\ settings = GetDefaultSettings
    /\ now = 0
    /\ lastOp = Op("construct", "", TRUE, FALSE, FALSE, Bool(isStorageAvailable))
    /\ lastArg = <<>>
    /\ lastRet = <<>>
    /\ lastEvents = <<>>
    /\ calls = 0
    /\ observers = <<>>
    /\ delivered = <<>>
    /\ ElsewhereInit

StorageNext ==
    \/ StGetTasks
    \/ StGetSettings
    \/ StSaveTasks
    \/ StSaveSettings
    \/ StClearAll
    \/ WrapGet
    \/ WrapSet
    \/ EnvSetUsable

SpecStorage == StorageInit /\ [][StorageNext]_vars

(***************************************************************************)
(* Pure functions, each applied once to arguments drawn by Init            *)
(***************************************************************************)
\* the engine and its stores, untouched while a pure function is under test
ManagerAtRest ==
    /\ lsUsable = TRUE
    /\ isStorageAvailable = TRUE
    /\ lsTasks = Absent
    /\ lsSettings = Absent
    /\ tasks = <<>>
    /\ settings = GetDefaultSettings
    /\ now = 0
    /\ lastOp = Op("load", "", TRUE, FALSE, FALSE, "none")
    /\ lastArg = <<>>
    /\ lastRet = <<>>
    /\ lastEvents = <<"tasksLoaded">>
    /\ calls = 0
    /\ observers = <<>>
    /\ delivered = <<>>

EngineAtRest == ManagerAtRest /\ lsState = Absent

\* the k-th task of a collection, as createTask and toggleTask leave it
TaskAt(k, done, priority, createdAt) ==
    [id |-> <<createdAt, k>>, text |-> Str("a", 1), priority |-> priority,
     completed |-> done, createdAt |-> createdAt, updatedAt |-> createdAt,
     completedAt |-> IF done THEN createdAt ELSE NullTs]

TaskShapes == BOOLEAN \X {"low", "medium", "high"} \X (0..MaxClock)

\* the collection of the tasks of shapes f[1], ..., f[n]
CollectionOf(n, f) == [k \in 1..n |-> TaskAt(k, f[k][1], f[k][2], f[k][3])]

FilterTypeInputs == {"all", "active"}

SortInit ==
    /\ EngineAtRest
    /\ DebounceIdle
    /\ AppsIdle
    /\ fnName = "none"
    /\ \E n \in 0..MaxSortLen, filterType \in FilterTypeInputs, autoSort \in BOOLEAN :
          \E f \in [1..n -> TaskShapes] :
            fnArgs = [tasks |-> CollectionOf(n, f), filterType |-> filterType,
                      autoSort |-> autoSort]
    /\ fnResult = <<>>

\* filterTasks(filterType) of a manager holding fnArgs.tasks
CallFilterTasks ==
    /\ fnName = "none"
    /\ fnName' = "filterTasks"
    /\ fnResult' = FilterTasksOf(fnArgs.tasks, fnArgs.filterType, fnArgs.autoSort)
    /\ UNCHANGED <<fnArgs, engineVars, dbVars, appVars>>

SortNext == CallFilterTasks

SpecSort == SortInit /\ [][SortNext]_vars

(***************************************************************************)
(* ZenFilterManager.applySearch, on strings as sequences of characters     *)
(***************************************************************************)
\* the characters of a run-length encoded string
RECURSIVE Expand(_)
Expand(s) ==
    IF s = <<>> THEN <<>>
    ELSE [k \in 1..Head(s).n |-> Head(s).c] \o Expand(Tail(s))

\* a string without repeated neighbours, run-length encoded
Encode(cs) == [k \in 1..Len(cs) |-> [c |-> cs[k], n |-> 1]]

LowerOf(c) ==
    CASE c = "B" -> "b" [] c = "K" -> "k" [] c = "M" -> "m" [] OTHER -> c

ToLowerCase(cs) == [k \in 1..Len(cs) |-> LowerOf(cs[k])]

RECURSIVE TrimChars(_)
TrimChars(cs) ==
    IF cs = <<>> THEN cs
    ELSE IF IsSpace(Head(cs)) THEN TrimChars(Tail(cs))
    ELSE IF IsSpace(cs[Len(cs)]) THEN TrimChars(SubSeq(cs, 1, Len(cs) - 1))
    ELSE cs

\* split(/\s+/) of a trimmed string: cur is the term being read
RECURSIVE SplitFrom(_, _, _)
SplitFrom(cs, cur, terms) ==
    IF cs = <<>> THEN Append(terms, cur)
    ELSE IF IsSpace(Head(cs))
         THEN SplitFrom(Tail(cs), <<>>, IF cur = <<>> THEN terms ELSE Append(terms, cur))
         ELSE SplitFrom(Tail(cs), Append(cur, Head(cs)), terms)

\* query.toLowerCase().trim().split(/\s+/): the empty string gives [""]
SearchTerms(query) == SplitFrom(TrimChars(ToLowerCase(query)), <<>>, <<>>)

JoinSpace(a, b) == a \o <<" ">> \o b

PriorityChars ==
    [low |-> <<"l", "o", "w">>,
     medium |-> <<"m", "e", "d", "i", "u", "m">>,
     high |-> <<"h", "i", "g", "h">>]

StateChars(done) ==
    IF done THEN <<"c", "o", "m", "p", "l", "e", "t", "e", "d">>
    ELSE <<"a", "c", "t", "i", "v", "e">>

\* new Date(createdAt).toLocaleDateString(): every timestamp up to MaxClock
\* is within the first day of 1970 (en-US, UTC)
ToLocaleDateString(createdAt) == <<"1", "/", "1", "/", "1", "9", "7", "0">>

SearchableText(task) ==
    ToLowerCase(JoinSpace(JoinSpace(JoinSpace(Expand(task.text),
                                              PriorityChars[task.priority]),
                                    StateChars(task.completed)),
                          ToLocaleDateString(task.createdAt)))

\* String.prototype.includes
Includes(text, term) ==
    \E i \in 0..(Len(text) - Len(term)) : SubSeq(text, i + 1, i + Len(term)) = term

\* text matches c1.*c2.*...cn for the characters of term, none of which has
\* a meaning in a regular expression
RECURSIVE RegexGapsTest(_, _)
RegexGapsTest(term, text) ==
    IF term = <<>> THEN TRUE
    ELSE IF text = <<>> THEN FALSE
    ELSE IF Head(term) = Head(text) THEN RegexGapsTest(Tail(term), Tail(text))
    ELSE RegexGapsTest(term, Tail(text))

FuzzyMatch(text, term) ==
    IF Len(term) < 3 THEN FALSE ELSE RegexGapsTest(ToLowerCase(term), ToLowerCase(text))

ApplySearch(list, query) ==
    LET searchTerms == SearchTerms(query)
        keep(task) ==
            \A k \in 1..Len(searchTerms) :
                \/ Includes(SearchableText(task), searchTerms[k])
                \/ FuzzyMatch(SearchableText(task), searchTerms[k])
    IN  SelectSeq(list, keep)

SearchTask(k, cs, done, priority) ==
    [id |-> <<0, k>>, text |-> Encode(cs), priority |-> priority, completed |-> done,
     createdAt |-> 0, updatedAt |-> 0, completedAt |-> IF done THEN 0 ELSE NullTs]

\* "Buy milk", "bike", "mb"
SearchTasks ==
    <<SearchTask(1, <<"B", "u", "y", " ", "m", "i", "l", "k">>, FALSE, "high"),
      SearchTask(2, <<"b", "i", "k", "e">>, TRUE, "low"),
      SearchTask(3, <<"m", "b">>, FALSE, "medium")>>

QueryChars == {"b", "m", "K", " "}

SearchInit ==
    /\ EngineAtRest
    /\ DebounceIdle
    /\ AppsIdle
    /\ fnName = "none"
    /\ \E picked \in SUBSET (1..Len(SearchTasks)), n \in 0..MaxQueryLen :
          \E query \in [1..n -> QueryChars] :
            LET in(task) == task.id[2] \in picked
            IN  fnArgs = [tasks |-> SelectSeq(SearchTasks, in), query |-> query]
    /\ fnResult = <<>>

CallApplySearch ==
    /\ fnName = "none"
    /\ fnName' = "applySearch"
    /\ fnResult' = ApplySearch(fnArgs.tasks, fnArgs.query)
    /\ UNCHANGED <<fnArgs, engineVars, dbVars, appVars>>

SearchNext == CallApplySearch

SpecSearch == SearchInit /\ [][SearchNext]_vars

(***************************************************************************)
(* renderTasks: zenTaskManager.getFilteredTasks() handed to                *)
(* zenFilterManager.applyFilters, a pure function of the collection, the   *)
(* manager's filter and auto-sort setting and the filter manager's         *)
(* activeFilter, searchQuery, sortBy and sortOrder.                        *)
(***************************************************************************)
MaxRenderLen == 2

\* the filter manager as its constructor leaves it
InitialConfig ==
    [activeFilter |-> "all", searchQuery |-> <<>>, sortBy |-> "priority", sortOrder |-> "desc"]

\* the difference of two priorities, NaN (taken as 0 by sort) when one is
\* outside the table
PriorityDifference(a, b) ==
    IF {a.priority, b.priority} \subseteq DOMAIN PriorityOrder
    THEN PriorityOrder[b.priority] - PriorityOrder[a.priority]
    ELSE 0

\* the comparator of applySorting for sortBy 'priority', 'created',
\* 'updated' and any name outside the switch ('default' here)
CompareBy(sortBy, sortOrder, a, b) ==
    LET result ==
            CASE sortBy = "priority" -> PriorityDifference(a, b)
              [] sortBy = "created" -> b.createdAt - a.createdAt
              [] sortBy = "updated" -> b.updatedAt - a.updatedAt
              [] OTHER ->
                    IF a.completed # b.completed THEN (IF a.completed THEN 1 ELSE -1)
                    ELSE IF PriorityDifference(a, b) # 0 THEN PriorityDifference(a, b)
                    ELSE b.createdAt - a.createdAt
    IN  IF sortOrder = "desc" THEN result ELSE 0 - result

RECURSIVE SortInsertBy(_, _, _, _)
SortInsertBy(sortBy, sortOrder, sorted, x) ==
    IF sorted = <<>> THEN <<x>>
    ELSE IF CompareBy(sortBy, sortOrder, sorted[Len(sorted)], x) > 0
         THEN Append(SortInsertBy(sortBy, sortOrder, SubSeq(sorted, 1, Len(sorted) - 1), x),
                     sorted[Len(sorted)])
         ELSE Append(sorted, x)

RECURSIVE SortFromBy(_, _, _, _)
SortFromBy(sortBy, sortOrder, sorted, rest) ==
    IF rest = <<>> THEN sorted
    ELSE SortFromBy(sortBy, sortOrder, SortInsertBy(sortBy, sortOrder, sorted, Head(rest)),
                    Tail(rest))

\* applySorting(tasks): a stable sort of a copy
ApplySorting(list, config) == SortFromBy(config.sortBy, config.sortOrder, <<>>, list)

\* applyFilters(tasks): the active filter's predicate, the search when the
\* query is not blank, then the sort
ApplyFilters(list, config) ==
    LET filtered == VisibleOf(list, config.activeFilter)
        searched == IF TrimChars(config.searchQuery) # <<>>
                    THEN ApplySearch(filtered, config.searchQuery) ELSE filtered
    IN  ApplySorting(searched, config)

\* the list renderTasks draws
RenderedTasks(ts, currentFilter, autoSort, config) ==
    ApplyFilters(FilterTasksOf(ts, currentFilter, autoSort), config)

ConfigInputs ==
    {InitialConfig,
     [InitialConfig EXCEPT !.sortOrder = "asc"],
     [InitialConfig EXCEPT !.sortBy = "created"],
     [InitialConfig EXCEPT !.sortBy = "updated"],
     [InitialConfig EXCEPT !.sortBy = "default"],
     [InitialConfig EXCEPT !.activeFilter = "completed"],
     [InitialConfig EXCEPT !.searchQuery = <<"a">>]}

RenderInit ==
    /\ EngineAtRest
    /\ DebounceIdle
    /\ AppsIdle
    /\ fnName = "none"
    /\ \E n \in 0..MaxRenderLen, filterType \in FilterTypeInputs, autoSort \in BOOLEAN,
          config \in ConfigInputs :
          \E f \in [1..n -> TaskShapes] :
            fnArgs = [tasks |-> CollectionOf(n, f), filterType |-> filterType,
                      autoSort |-> autoSort, config |-> config]
    /\ fnResult = <<>>

\* renderTasks() with a manager holding fnArgs.tasks
CallRenderTasks ==
    /\ fnName = "none"
    /\ fnName' = "renderTasks"
    /\ fnResult' = RenderedTasks(fnArgs.tasks, fnArgs.filterType, fnArgs.autoSort,
                                 fnArgs.config)
    /\ UNCHANGED <<fnArgs, engineVars, dbVars, appVars>>

RenderNext == CallRenderTasks

SpecRender == RenderInit /\ [][RenderNext]_vars

(***************************************************************************)
(* Debounced operations: ZenTaskerApp.debounce('resize', ...),             *)
(* App.handleEditorInput, and the functions WeatherUtils.debounce makes.   *)
(* The delay is counted in ticks of DebounceDelay per quiet period.        *)
(***************************************************************************)
SetTimeout(pending, id) == pending \cup {[id |-> id, left |-> DebounceDelay]}

\* clearTimeout that cancels nothing
ClearTimeoutNoop(pending, handle) == pending

\* clearTimeout: null, undefined and the id of a timer that fired cancel nothing
ClearTimeout(pending, handle) == {t \in pending : t.id # handle}

DebounceResult(pending, handle, ran) ==
    [timers |-> pending, handle |-> handle, ran |-> ran]

\* ZenTaskerApp.debounce(key, func, delay) for one key
AppDebounce(pending, handle, id) ==
    DebounceResult(SetTimeout(ClearTimeout(pending, handle), id), id, 0)

\* App.handleEditorInput
HandleEditorInput(pending, handle, id) ==
    LET cleared == IF handle # NoTimer THEN ClearTimeout(pending, handle) ELSE pending
    IN  DebounceResult(SetTimeout(cleared, id), id, 0)

\* executedFunction, the function debounce(func, wait, immediate) returns
ExecutedFunction(pending, handle, id, immediate) ==
    LET callNow == immediate /\ handle = NoTimer
    IN  DebounceResult(SetTimeout(ClearTimeout(pending, handle), id), id,
                       IF callNow THEN 1 ELSE 0)

DebounceKinds == {"app", "editor", "trailing", "immediate"}

DebounceOf(kind, pending, handle, id) ==
    CASE kind = "app" -> AppDebounce(pending, handle, id)
      [] kind = "editor" -> HandleEditorInput(pending, handle, id)
      [] kind = "trailing" -> ExecutedFunction(pending, handle, id, FALSE)
      [] kind = "immediate" -> ExecutedFunction(pending, handle, id, TRUE)

DebounceFrame == UNCHANGED <<engineVars, fnVars, dbKind, appVars>>

\* an input event (resize, keystroke, call of the debounced function)
InputEvent ==
    /\ nextTimerId <= MaxTimers
    /\ LET d == DebounceOf(dbKind, timers, dbTimer, nextTimerId)
       IN  /\ timers' = d.timers
           /\ dbTimer' = d.handle
           /\ dbRuns' = dbRuns + d.ran
    /\ nextTimerId' = nextTimerId + 1
    /\ dbBursts' = IF timers = {} THEN dbBursts + 1 ELSE dbBursts
    /\ DebounceFrame

\* one tick passes; a timer that is due fires before any more time passes
Elapse ==
    /\ timers # {}
    /\ \A t \in timers : t.left > 0
    /\ timers' = {[t EXCEPT !.left = t.left - 1] : t \in timers}
    /\ UNCHANGED <<dbTimer, nextTimerId, dbRuns, dbBursts>>
    /\ DebounceFrame

\* a due timer fires: func itself, or `later` for WeatherUtils.debounce
Expire ==
    /\ \E t \in timers :
        /\ t.left = 0
        /\ timers' = timers \ {t}
    /\ dbTimer' = IF dbKind \in {"trailing", "immediate"} THEN NoTimer ELSE dbTimer
    /\ dbRuns' = IF dbKind = "immediate" THEN dbRuns ELSE dbRuns + 1
    /\ UNCHANGED <<nextTimerId, dbBursts>>
    /\ DebounceFrame

DebounceInit ==
    /\ EngineAtRest
    /\ FnIdle
    /\ AppsIdle
    /\ dbKind \in DebounceKinds
    /\ dbTimer = NoTimer
    /\ timers = {}
    /\ nextTimerId = 1
    /\ dbRuns = 0
    /\ dbBursts = 0

DebounceNext ==
    \/ InputEvent
    \/ Elapse
    \/ Expire

SpecDebounce == DebounceInit /\ [][DebounceNext]_vars

(***************************************************************************)
(* The weather widget: WeatherApp's loads (refreshWeatherData,             *)
(* changeToRandomLocation), handleError's retry and error-recovery timers, *)
(* the auto-refresh interval and the buttons of WeatherComponents.  An     *)
(* async function runs up to its await of the fetch in one step and from   *)
(* the fetch's outcome to its end in another; timers fire and events       *)
(* arrive between the two.                                                 *)
(***************************************************************************)
RETRY_ATTEMPTS == 3
RoundDecimals == 10
DefaultInterval == 3000

MaxLoads == 2
MaxPending == 3
MaxFailedRetries == 4

\* no retryFunction was passed to handleError
NoRetry == [fn |-> "none", silent |-> FALSE]

\* handleError(error, operation, retryFunction) with appState.retryCount rc
\* and the timers pending: the retry count it leaves and the timer it sets
HandleError(rc, pending, retryFunction) ==
    IF retryFunction # NoRetry /\ rc < RETRY_ATTEMPTS
    THEN [retryCount |-> rc + 1,
          timers |-> Append(pending, [kind |-> "retry", fn |-> retryFunction.fn,
                                      silent |-> retryFunction.silent])]
    ELSE [retryCount |-> 0,
          timers |-> Append(pending, [kind |-> "recover", fn |-> "none",
                                      silent |-> FALSE])]

\* updateLoadingState(loading) is called unless the refresh is silent
CompLoadingAfter(silent, loading) == IF silent THEN wxCompLoading ELSE loading

\* refreshWeatherData(silent) or changeToRandomLocation(), called from a
\* retry timer's callback or from elsewhere, up to the await of the fetch.
\* When isLoading is set the try block returns, and the finally block runs.
BeginLoad(fn, silent, retry) ==
    /\ IF wxLoading
       THEN /\ wxLoading' = FALSE
            /\ wxCompLoading' = CompLoadingAfter(silent, FALSE)
            /\ wxRetryCount' = IF retry THEN 0 ELSE wxRetryCount
            /\ UNCHANGED wxLoads
       ELSE /\ Len(wxLoads) < MaxLoads
            /\ wxLoading' = TRUE
            /\ wxCompLoading' = CompLoadingAfter(silent, TRUE)
            /\ wxLoads' = Append(wxLoads, [fn |-> fn, silent |-> silent, retry |-> retry])
            /\ UNCHANGED wxRetryCount
    /\ wxFailedRetries' = IF retry THEN wxFailedRetries ELSE 0

WeatherFrame == UNCHANGED <<engineVars, fnVars, dbVars, storeVars, handedVars, demoVars>>

RemoveAt(seq, k) == [i \in 1..(Len(seq) - 1) |-> IF i < k THEN seq[i] ELSE seq[i + 1]]

\* handleRefreshClick: the button dispatches weatherRefresh, whose listener
\* calls refreshWeatherData()
UserRefresh ==
    /\ ~wxCompLoading
    /\ BeginLoad("refresh", FALSE, FALSE)
    /\ UNCHANGED <<wxHasError, wxTimers>>
    /\ WeatherFrame

\* handleLocationDoubleClick: weatherRandomLocation, changeToRandomLocation()
UserLocation ==
    /\ ~wxCompLoading
    /\ BeginLoad("location", FALSE, FALSE)
    /\ UNCHANGED <<wxHasError, wxTimers>>
    /\ WeatherFrame

\* the setInterval callback of setupAutoRefresh
AutoRefreshTick ==
    /\ ~wxLoading /\ ~wxHasError
    /\ BeginLoad("refresh", TRUE, FALSE)
    /\ UNCHANGED <<wxHasError, wxTimers>>
    /\ WeatherFrame

\* the fetch of the k-th waiting load resolves and the components update:
\* the rest of the try block, the finally block and, in a retry timer's
\* callback, the statement after `await retryFunction()`
FetchSucceeds ==
    \E k \in 1..Len(wxLoads) :
        LET l == wxLoads[k]
        IN  /\ wxLoads' = RemoveAt(wxLoads, k)
            /\ wxHasError' = IF l.fn = "refresh" THEN FALSE ELSE wxHasError
            /\ wxLoading' = FALSE
            /\ wxCompLoading' = CompLoadingAfter(l.silent, FALSE)
            /\ wxRetryCount' = IF l.retry THEN 0 ELSE wxRetryCount
            /\ wxFailedRetries' = 0
            /\ UNCHANGED wxTimers
            /\ WeatherFrame

\* the fetch of the k-th waiting load (or the update of the components)
\* rejects: the catch block's handleError, the finally block and, in a
\* retry timer's callback, the statement after `await retryFunction()`
FetchFails ==
    /\ Len(wxTimers) < MaxPending
    /\ wxFailedRetries < MaxFailedRetries
    /\ \E k \in 1..Len(wxLoads) :
        LET l == wxLoads[k]
            h == HandleError(wxRetryCount, wxTimers, [fn |-> l.fn, silent |-> l.silent])
        IN  /\ wxLoads' = RemoveAt(wxLoads, k)
            /\ wxHasError' = TRUE
            /\ wxTimers' = h.timers
            /\ wxLoading' = FALSE
            /\ wxCompLoading' = CompLoadingAfter(l.silent, FALSE)
            /\ wxRetryCount' = IF l.retry THEN 0 ELSE h.retryCount
            /\ wxFailedRetries' = IF l.retry THEN wxFailedRetries + 1 ELSE 0
            /\ WeatherFrame

\* a retry timer fires: await retryFunction()
RetryTimerFires ==
    \E k \in 1..Len(wxTimers) :
        /\ wxTimers[k].kind = "retry"
        /\ wxTimers' = RemoveAt(wxTimers, k)
        /\ BeginLoad(wxTimers[k].fn, wxTimers[k].silent, TRUE)
        /\ UNCHANGED wxHasError
        /\ WeatherFrame

\* an error-recovery timer fires: clearErrorAndRefresh() if hasError
RecoveryTimerFires ==
    \E k \in 1..Len(wxTimers) :
        /\ wxTimers[k].kind = "recover"
        /\ wxTimers' = RemoveAt(wxTimers, k)
        /\ IF wxHasError
           THEN /\ wxHasError' = FALSE
                /\ BeginLoad("refresh", FALSE, FALSE)
           ELSE UNCHANGED <<wxHasError, wxLoading, wxCompLoading, wxRetryCount, wxLoads,
                            wxFailedRetries>>
        /\ WeatherFrame

\* the window's error / unhandledrejection listener: handleError without a
\* retry function
UncaughtError ==
    /\ Len(wxTimers) < MaxPending
    /\ LET h == HandleError(wxRetryCount, wxTimers, NoRetry)
       IN  /\ wxHasError' = TRUE
           /\ wxRetryCount' = h.retryCount
           /\ wxTimers' = h.timers
    /\ UNCHANGED <<wxLoading, wxCompLoading, wxLoads, wxFailedRetries>>
    /\ WeatherFrame

\* after initialize(): the initial load is over, nothing has failed
WeatherInit ==
    /\ EngineAtRest
    /\ FnIdle
    /\ DebounceIdle
    /\ StoreIdle
    /\ HandedIdle
    /\ DemosIdle
    /\ WeatherIdle

WeatherNext ==
    \/ UserRefresh
    \/ UserLocation
    \/ AutoRefreshTick
    \/ FetchSucceeds
    \/ FetchFails
    \/ RetryTimerFires
    \/ RecoveryTimerFires
    \/ UncaughtError

SpecWeather == WeatherInit /\ [][WeatherNext]_vars

(***************************************************************************)
(* The minimal Store (store.js): its state is read once, at module load,   *)
(* with storage.get("state", initial); every mutation ends with persist(). *)
(* A call on a state that is null raises a TypeError where it first reads  *)
(* a property of the state.                                                *)
(***************************************************************************)
MaxStoreAdds == 1

TitleInputs == {Str("a", 1), Str(" ", 1) \o Str("b", 1) \o Str(" ", 2), Str(" ", 3)}
StoreIdInputs == {<<0, 0>>, <<1, 1>>, <<1, 2>>}
StoreFilterInputs == {"all", "active", "completed"}

\* the outcome of a Store call: the state and the stored value it leaves,
\* what it returned, whether it raised
StoreOutcome(st, raw, ret, raised) == [state |-> st, raw |-> raw, ret |-> ret, raised |-> raised]

\* persist() after the state became st
Persist(st, raw, quotaOk, ret) ==
    LET w == WrapSetOf(lsUsable, raw, st, quotaOk)
    IN  StoreOutcome(st, w.raw, IF w.raised THEN <<>> ELSE ret, w.raised)

\* t.completed = !t.completed on the first task of the id
ToggleFirst(ts, id) ==
    LET first == CHOOSE i \in 1..Len(ts) :
                    ts[i].id = id /\ \A j \in 1..(i - 1) : ts[j].id # id
    IN  [ts EXCEPT ![first].completed = ~ts[first].completed]

StoreAllOf(st, raw) == StoreOutcome(st, raw, <<st>>, FALSE)

StoreVisibleOf(st, raw) ==
    IF st = JsNull THEN StoreOutcome(st, raw, <<>>, TRUE)
    ELSE StoreOutcome(st, raw, <<VisibleOf(st.tasks, st.filter)>>, FALSE)

StoreStatsOf(st, raw) ==
    IF st = JsNull THEN StoreOutcome(st, raw, <<>>, TRUE)
    ELSE LET notDone(t) == ~t.completed
             total == Len(st.tasks)
             active == Len(SelectSeq(st.tasks, notDone))
         IN  StoreOutcome(st, raw, <<[total |-> total, active |-> active,
                                      completed |-> total - active]>>, FALSE)

StoreAddOf(st, raw, title, id, quotaOk) ==
    LET task == [id |-> id, title |-> Trim(title), completed |-> FALSE]
    IN  IF task.title = <<>> THEN StoreOutcome(st, raw, <<>>, FALSE)
        ELSE IF st = JsNull THEN StoreOutcome(st, raw, <<>>, TRUE)
        ELSE Persist([st EXCEPT !.tasks = <<task>> \o st.tasks], raw, quotaOk, <<task>>)

StoreToggleOf(st, raw, id, quotaOk) ==
    IF st = JsNull THEN StoreOutcome(st, raw, <<>>, TRUE)
    ELSE IF \A i \in 1..Len(st.tasks) : st.tasks[i].id # id
         THEN StoreOutcome(st, raw, <<>>, FALSE)
         ELSE Persist([st EXCEPT !.tasks = ToggleFirst(st.tasks, id)], raw, quotaOk, <<>>)

StoreRemoveOf(st, raw, id, quotaOk) ==
    IF st = JsNull THEN StoreOutcome(st, raw, <<>>, TRUE)
    ELSE LET other(t) == t.id # id
         IN  Persist([st EXCEPT !.tasks = SelectSeq(st.tasks, other)], raw, quotaOk, <<>>)

StoreClearCompletedOf(st, raw, quotaOk) ==
    IF st = JsNull THEN StoreOutcome(st, raw, <<>>, TRUE)
    ELSE LET notDone(t) == ~t.completed
         IN  Persist([st EXCEPT !.tasks = SelectSeq(st.tasks, notDone)], raw, quotaOk, <<>>)

StoreSetFilterOf(st, raw, filter, quotaOk) ==
    IF st = JsNull THEN StoreOutcome(st, raw, <<>>, TRUE)
    ELSE Persist([st EXCEPT !.filter = filter], raw, quotaOk, <<>>)

StoreFrame ==
    UNCHANGED <<tasks, settings, isStorageAvailable, lsTasks, lsSettings, lsUsable, now,
                lastOp, lastArg, lastRet, lastEvents, calls, observers, delivered,
                fnVars, dbVars, weatherVars, handedVars, demoVars, stLoaded>>

\* a Store call of the given name that came out as o
StoreApply(name, blank, quotaOk, o) ==
    /\ stState' = o.state
    /\ lsState' = o.raw
    /\ stRet' = o.ret
    /\ stOp' = [name |-> name, blank |-> blank, quotaOk |-> quotaOk,
                result |-> IF o.raised THEN "raised"
                           ELSE IF o.ret = <<>> THEN "undefined" ELSE "value"]
    /\ StoreFrame

StoreAll == StoreApply("all", FALSE, TRUE, StoreAllOf(stState, lsState)) /\ UNCHANGED stNextId

StoreVisible ==
    StoreApply("visible", FALSE, TRUE, StoreVisibleOf(stState, lsState)) /\ UNCHANGED stNextId

StoreStats ==
    StoreApply("stats", FALSE, TRUE, StoreStatsOf(stState, lsState)) /\ UNCHANGED stNextId

StoreAdd ==
    /\ stNextId <= MaxStoreAdds
    /\ stNextId' = stNextId + 1
    /\ \E title \in TitleInputs, quotaOk \in BOOLEAN :
          StoreApply("add", Trim(title) = <<>>, quotaOk,
                     StoreAddOf(stState, lsState, title, <<1, stNextId>>, quotaOk))

StoreToggle ==
    /\ \E id \in StoreIdInputs, quotaOk \in BOOLEAN :
          StoreApply("toggle", FALSE, quotaOk, StoreToggleOf(stState, lsState, id, quotaOk))
    /\ UNCHANGED stNextId

StoreRemove ==
    /\ \E id \in StoreIdInputs, quotaOk \in BOOLEAN :
          StoreApply("remove", FALSE, quotaOk, StoreRemoveOf(stState, lsState, id, quotaOk))
    /\ UNCHANGED stNextId

StoreClearCompleted ==
    /\ \E quotaOk \in BOOLEAN :
          StoreApply("clearCompleted", FALSE, quotaOk,
                     StoreClearCompletedOf(stState, lsState, quotaOk))
    /\ UNCHANGED stNextId

StoreSetFilter ==
    /\ \E filter \in StoreFilterInputs, quotaOk \in BOOLEAN :
          StoreApply("setFilter", FALSE, quotaOk,
                     StoreSetFilterOf(stState, lsState, filter, quotaOk))
    /\ UNCHANGED stNextId

\* the module has just been loaded: let state = storage.get(KEY, initial)
StoreInit ==
    /\ ManagerAtRest
    /\ FnIdle
    /\ DebounceIdle
    /\ WeatherIdle
    /\ HandedIdle
    /\ DemosIdle
    /\ lsState \in {Absent, Garbage} \cup {StringifyObject(st) : st \in StateInputs}
    /\ stLoaded = lsState.kind
    /\ stState = WrapGetOf(lsUsable, lsState, InitialState).val
    /\ stNextId = 1
    /\ stOp = [name |-> "load", blank |-> FALSE, quotaOk |-> TRUE, result |-> "undefined"]
    /\ stRet = <<>>

StoreNext ==
    \/ StoreAll
    \/ StoreVisible
    \/ StoreStats
    \/ StoreAdd
    \/ StoreToggle
    \/ StoreRemove
    \/ StoreClearCompleted
    \/ StoreSetFilter

SpecStore == StoreInit /\ [][StoreNext]_vars

(***************************************************************************)
(* Values handed out to callers: the arrays returned by getAllTasks,       *)
(* filterTasks / getFilteredTasks, Store.visible and Store.all, and the    *)
(* payload of 'tasksLoaded'.  A handed array is the collection's own array *)
(* or a new one, and each of its elements is one of the collection's task  *)
(* objects or a copy; what the caller writes to an object that is the      *)
(* collection's is written to the collection.                              *)
(***************************************************************************)
MaxHanded == 2

\* the tasks of ts, each with its index in ts
Indexed(ts) == [i \in 1..Len(ts) |-> Spread(ts[i], [ix |-> i])]
IndexesOf(out) == [k \in 1..Len(out) |-> out[k].ix]
AllCopies(out) == [k \in 1..Len(out) |-> 0]

\* what a call hands out: the value, and what of it is the collection's
Handed(source, own, elems, value) ==
    /\ hdSource' = source
    /\ hdArrayOwn' = own
    /\ hdElems' = elems
    /\ hdValue' = value

HandedFrame ==
    UNCHANGED <<settings, isStorageAvailable, lsTasks, lsSettings, lsState, lsUsable, now,
                lastOp, lastArg, lastRet, lastEvents, calls, observers, delivered,
                fnVars, dbVars, weatherVars, demoVars, stLoaded, stNextId, stOp, stRet>>

\* getAllTasks(): [...this.tasks]
HandGetAllTasks ==
    /\ Handed("getAllTasks", FALSE, IndexesOf(Indexed(tasks)), tasks)
    /\ UNCHANGED <<tasks, stState>>
    /\ HandedFrame

\* filterTasks(filterType), getFilteredTasks(), the payload of
\* 'tasksUpdated': a filter and a sort of [...this.tasks]
HandFilterTasks ==
    /\ \E filterType \in FilterTypeInputs :
          Handed("filterTasks", FALSE,
                 IndexesOf(FilterTasksOf(Indexed(tasks), filterType, settings.autoSort)),
                 FilterTasksOf(tasks, filterType, settings.autoSort))
    /\ UNCHANGED <<tasks, stState>>
    /\ HandedFrame

\* loadTasks(): this.tasks = zenStorage.getTasks();
\* notifyObservers('tasksLoaded', this.tasks)
HandTasksLoaded ==
    /\ tasks' = GetTasks
    /\ Handed("tasksLoaded", TRUE, IndexesOf(Indexed(tasks')), tasks')
    /\ UNCHANGED stState
    /\ HandedFrame

\* Store.visible(): state.tasks.filter(byFilter(state.filter))
HandStoreVisible ==
    /\ Handed("Store.visible", FALSE,
              IndexesOf(VisibleOf(Indexed(stState.tasks), stState.filter)),
              VisibleOf(stState.tasks, stState.filter))
    /\ UNCHANGED <<tasks, stState>>
    /\ HandedFrame

\* Store.all(): structuredClone(state)
HandStoreAll ==
    /\ Handed("Store.all", FALSE, AllCopies(stState.tasks), stState.tasks)
    /\ UNCHANGED <<tasks, stState>>
    /\ HandedFrame

OfStore == hdSource \in {"Store.visible", "Store.all"}

\* the caller pushes an element onto the handed array
CallerPush ==
    /\ hdSource # "none"
    /\ Len(hdValue) < MaxHanded
    /\ LET added == IF OfStore
                    THEN [id |-> <<9, 9>>, title |-> Str("z", 1), completed |-> FALSE]
                    ELSE TaskAt(9, FALSE, "low", 0)
       IN  /\ hdValue' = Append(hdValue, added)
           /\ hdElems' = Append(hdElems, IF hdArrayOwn THEN Len(tasks) + 1 ELSE 0)
           /\ tasks' = IF hdArrayOwn THEN Append(tasks, added) ELSE tasks
    /\ UNCHANGED <<hdSource, hdArrayOwn, stState>>
    /\ HandedFrame

\* the caller writes the field completed of the k-th handed element
CallerSetCompleted ==
    /\ hdSource # "none"
    /\ \E k \in 1..Len(hdValue), done \in BOOLEAN :
        LET i == hdElems[k]
        IN  /\ hdValue' = [hdValue EXCEPT ![k].completed = done]
            /\ tasks' = IF i # 0 /\ ~OfStore
                         THEN [tasks EXCEPT ![i].completed = done] ELSE tasks
            /\ stState' = IF i # 0 /\ OfStore
                           THEN [stState EXCEPT !.tasks[i].completed = done] ELSE stState
    /\ UNCHANGED <<hdSource, hdArrayOwn, hdElems>>
    /\ HandedFrame

\* the tasks a collection starts with: done or not, of two priorities
HandedShapes == BOOLEAN \X {"low", "high"} \X {0}

\* a manager and a Store that have loaded what the store holds
HandedInit ==
    /\ lsUsable = TRUE
    /\ isStorageAvailable = TRUE
    /\ \E n \in 1..MaxHanded : \E f \in [1..n -> HandedShapes] :
          lsTasks = StringifyArray(CollectionOf(n, f))
    /\ lsSettings \in {Absent, StringifyObject([autoSort |-> FALSE])}
    /\ lsState \in {StringifyObject(st) : st \in StateInputs \ {InitialState}}
    /\ tasks = GetTasks
    /\ settings = GetSettings
    /\ now = 0
    /\ lastOp = Op("load", "", TRUE, FALSE, FALSE, "none")
    /\ lastArg = <<>>
    /\ lastRet = <<>>
    /\ lastEvents = <<"tasksLoaded">>
    /\ calls = 0
    /\ observers = <<>>
    /\ delivered = <<>>
    /\ FnIdle
    /\ DebounceIdle
    /\ WeatherIdle
    /\ stLoaded = lsState.kind
    /\ stState = WrapGetOf(lsUsable, lsState, InitialState).val
    /\ stNextId = 1
    /\ stOp = [name |-> "load", blank |-> FALSE, quotaOk |-> TRUE, result |-> "undefined"]
    /\ stRet = <<>>
    /\ HandedIdle
    /\ DemosIdle

HandedNext ==
    \/ HandGetAllTasks
    \/ HandFilterTasks
    \/ HandTasksLoaded
    \/ HandStoreVisible
    \/ HandStoreAll
    \/ CallerPush
    \/ CallerSetCompleted

SpecHanded == HandedInit /\ [][HandedNext]_vars

(***************************************************************************)
(* The quiz: APP_STATE and its functions, driven by the handlers of ui.js  *)
(* and app.js.  The questions are data: question i has id i and the index  *)
(* of its correct option.  An entry of answers is null or an answer.       *)
(***************************************************************************)
QuizQuestions == [i \in 1..MaxQuestions |-> [id |-> i, correctAnswer |-> i % MaxOptions]]

\* null, as an entry of answers
NullAnswer == [questionId |-> -1, selectedAnswer |-> -1, isCorrect |-> FALSE]

IsAnswer(a) == a # NullAnswer

\* Array.from({ length: questions.length }, () => null)
NoAnswers == [i \in 1..Len(QuizQuestions) |-> NullAnswer]

\* the application state as one record
QuizState ==
    [playerName |-> qzPlayerName, currentQuestionIndex |-> qzIndex, score |-> qzScore,
     answers |-> qzAnswers, isQuizCompleted |-> qzCompleted]

GetCurrentQuestion(st) == QuizQuestions[st.currentQuestionIndex + 1]

GetAnswer(st) == st.answers[st.currentQuestionIndex + 1]

\* setAnswer(questionId, selectedAnswer)
SetAnswer(st, questionId, selectedAnswer) ==
    LET isCorrect == selectedAnswer = GetCurrentQuestion(st).correctAnswer
        answer == [questionId |-> questionId, selectedAnswer |-> selectedAnswer,
                   isCorrect |-> isCorrect]
    IN  [st EXCEPT !.answers[st.currentQuestionIndex + 1] = answer,
                   !.score = IF isCorrect THEN st.score + 10 ELSE st.score]

\* nextQuestion(): the state afterwards and the value returned
NextQuestion(st) ==
    IF st.currentQuestionIndex < Len(QuizQuestions) - 1
    THEN [state |-> [st EXCEPT !.currentQuestionIndex = st.currentQuestionIndex + 1],
          ret |-> TRUE]
    ELSE [state |-> [st EXCEPT !.isQuizCompleted = TRUE], ret |-> FALSE]

\* previousQuestion()
PreviousQuestion(st) ==
    IF st.currentQuestionIndex > 0
    THEN [state |-> [st EXCEPT !.currentQuestionIndex = st.currentQuestionIndex - 1],
          ret |-> TRUE]
    ELSE [state |-> st, ret |-> FALSE]

\* Math.round(p / q * 100) for q > 0
RoundedShare(p, q) == (200 * p + q) \div (2 * q)

IsCorrectAnswer(a) == IsAnswer(a) /\ a.isCorrect

\* calculateResults()
CalculateResults(st) ==
    LET correctCount == Len(SelectSeq(st.answers, IsCorrectAnswer))
        totalQuestions == Len(QuizQuestions)
    IN  [playerName |-> st.playerName,
         totalQuestions |-> totalQuestions,
         correctCount |-> correctCount,
         wrongCount |-> totalQuestions - correctCount,
         score |-> st.score,
         accuracy |-> RoundedShare(correctCount, totalQuestions)]

\* resetState()
ResetState(st) ==
    [st EXCEPT !.playerName = 0, !.currentQuestionIndex = 0, !.score = 0,
               !.isQuizCompleted = FALSE, !.answers = NoAnswers]

QuizFrame == UNCHANGED <<engineVars, fnVars, dbVars, weatherVars, storeVars, handedVars,
                         calcVars, sliderVars>>

\* the handler left the application state as st and the screen as given
QuizApply(st, screen, clicks) ==
    /\ qzPlayerName' = st.playerName
    /\ qzIndex' = st.currentQuestionIndex
    /\ qzScore' = st.score
    /\ qzAnswers' = st.answers
    /\ qzCompleted' = st.isQuizCompleted
    /\ qzScreen' = screen
    /\ qzClicks' = clicks
    /\ QuizFrame

\* handleStartQuiz, the name typed having the given length once trimmed
HandleStartQuiz ==
    /\ qzScreen = "welcome"
    /\ \E nameLength \in 0..MaxNameLength :
          IF nameLength = 0 \/ nameLength < 2
          THEN QuizApply(QuizState, qzScreen, qzClicks)
          ELSE QuizApply([QuizState EXCEPT !.playerName = nameLength], "quiz", qzClicks)

\* handleAnswerClick(selectedIndex): a click on an option, or its number key
HandleAnswerClick ==
    /\ qzScreen = "quiz"
    /\ qzClicks < MaxClicks
    /\ \E selectedIndex \in 0..(MaxOptions - 1) :
          QuizApply(SetAnswer(QuizState, GetCurrentQuestion(QuizState).id, selectedIndex),
                    qzScreen, qzClicks + 1)

\* handlePreviousQuestion
HandlePreviousQuestion ==
    /\ qzScreen = "quiz"
    /\ QuizApply(PreviousQuestion(QuizState).state, qzScreen, qzClicks)

\* handleNextQuestion: a warning without an answer, the results after the
\* last question, the next question otherwise
HandleNextQuestion ==
    /\ qzScreen = "quiz"
    /\ IF ~IsAnswer(GetAnswer(QuizState))
       THEN QuizApply(QuizState, qzScreen, qzClicks)
       ELSE IF qzIndex = Len(QuizQuestions) - 1
            THEN QuizApply(QuizState, "result", qzClicks)
            ELSE QuizApply(NextQuestion(QuizState).state, qzScreen, qzClicks)

\* handleRestart, the confirmation being given or not
HandleRestart ==
    /\ qzScreen = "result"
    /\ \E confirmed \in BOOLEAN :
          IF confirmed
          THEN QuizApply(ResetState(QuizState), "welcome", qzClicks)
          ELSE QuizApply(QuizState, qzScreen, qzClicks)

\* after initializeApp(): initializeState() and the welcome screen
QuizInit ==
    /\ EngineAtRest
    /\ FnIdle
    /\ DebounceIdle
    /\ WeatherIdle
    /\ StoreIdle
    /\ HandedIdle
    /\ CalcIdle
    /\ SliderIdle
    /\ qzScreen = "welcome"
    /\ qzPlayerName = 0
    /\ qzIndex = 0
    /\ qzScore = 0
    /\ qzAnswers = NoAnswers
    /\ qzCompleted = FALSE
    /\ qzClicks = 0

QuizNext ==
    \/ HandleStartQuiz
    \/ HandleAnswerClick
    \/ HandlePreviousQuestion
    \/ HandleNextQuestion
    \/ HandleRestart

SpecQuiz == QuizInit /\ [][QuizNext]_vars

(***************************************************************************)
(* The calculator module.  currentValue is a sequence of characters.  A    *)
(* JavaScript number is NaN or a decimal m / 10^e with m an integer and    *)
(* e >= 0 as small as can be; previousValue is '' or a number.  A result   *)
(* or an operand of more than MaxDigits digits or MaxDecimals decimals is  *)
(* outside the bounds: the key press that would evaluate it is not taken.  *)
(***************************************************************************)
EmptyString == [kind |-> "empty", m |-> 0, e |-> 0]

NaN == [kind |-> "NaN", m |-> 0, e |-> 0]

ErrorResult == [kind |-> "Error", m |-> 0, e |-> 0]

Inexact == [kind |-> "inexact", m |-> 0, e |-> 0]

RECURSIVE Num(_, _)
\* the number m / 10^e
Num(m, e) ==
    IF e > 0 /\ m % 10 = 0 THEN Num(m \div 10, e - 1) ELSE [kind |-> "num", m |-> m, e |-> e]

IsNaN(x) == x.kind = "NaN"

Abs(n) == IF n < 0 THEN -n ELSE n

Larger(a, b) == IF a < b THEN b ELSE a

DigitChars == <<"0", "1", "2", "3", "4", "5", "6", "7", "8", "9">>

IsDigit(c) == \E d \in 1..10 : DigitChars[d] = c

DigitValue(c) == (CHOOSE d \in 1..10 : DigitChars[d] = c) - 1

ErrorText == <<"E", "r", "r", "o", "r">>

RECURSIVE DigitsFrom(_, _)
\* how many digits s has from position i on
DigitsFrom(s, i) == IF i <= Len(s) /\ IsDigit(s[i]) THEN 1 + DigitsFrom(s, i + 1) ELSE 0

RECURSIVE ValueOfDigits(_)
ValueOfDigits(s) ==
    IF s = <<>> THEN 0
    ELSE 10 * ValueOfDigits(SubSeq(s, 1, Len(s) - 1)) + DigitValue(s[Len(s)])

\* value.replace(/,/g, '')
CleanValue(s) == SelectSeq(s, LAMBDA c : c # ",")

\* parseFloat(s): an optional sign, digits, an optional point and digits;
\* NaN when there is no digit at all
ParseFloat(s) ==
    LET negative == Len(s) > 0 /\ s[1] = "-"
        start == IF negative THEN 2 ELSE 1
        whole == DigitsFrom(s, start)
        point == start + whole <= Len(s) /\ s[start + whole] = "."
        decimals == IF point THEN DigitsFrom(s, start + whole + 1) ELSE 0
        digits == SubSeq(s, start, start + whole - 1)
                     \o SubSeq(s, start + whole + 1, start + whole + decimals)
    IN  IF whole + decimals = 0 THEN NaN
        ELSE Num((IF negative THEN -1 ELSE 1) * ValueOfDigits(digits), decimals)

RECURSIVE DigitsOf(_)
\* the decimal digits of a natural number
DigitsOf(n) ==
    IF n < 10 THEN <<DigitChars[n + 1]>> ELSE DigitsOf(n \div 10) \o <<DigitChars[(n % 10) + 1]>>

RECURSIVE Padded(_, _)
Padded(s, width) == IF Len(s) < width THEN Padded(<<"0">> \o s, width) ELSE s

\* String(x) of a number
NumberToString(x) ==
    IF IsNaN(x) THEN <<"N", "a", "N">>
    ELSE LET scale == 10 ^ x.e
             sign == IF x.m < 0 THEN <<"-">> ELSE <<>>
             whole == DigitsOf(Abs(x.m) \div scale)
         IN  IF x.e = 0 THEN sign \o whole
             ELSE sign \o whole \o <<".">> \o Padded(DigitsOf(Abs(x.m) % scale), x.e)

RECURSIVE LongDivision(_, _, _, _)
\* the decimals of the quotient one at a time: acc / 10^k so far, r left over
LongDivision(acc, r, q, k) ==
    IF r = 0 THEN Num(acc, k)
    ELSE IF k = MaxDecimals \/ acc >= 10 ^ MaxDigits THEN Inexact
    ELSE LongDivision(10 * acc + ((10 * r) \div q), (10 * r) % q, q, k + 1)

\* a / b for b # 0, when it has at most MaxDecimals decimals
Quotient(a, b) ==
    LET p == Abs(a.m) * (10 ^ b.e)
        q == Abs(b.m) * (10 ^ a.e)
        sign == IF (a.m < 0) = (b.m < 0) THEN 1 ELSE -1
        abs == LongDivision(p \div q, p % q, q, 0)
    IN  IF abs = Inexact THEN Inexact ELSE Num(sign * abs.m, abs.e)

\* a number of at most MaxDigits digits, MaxDecimals of them decimals
InRange(x) == x.kind = "num" => (Abs(x.m) < 10 ^ MaxDigits /\ x.e <= MaxDecimals)

Bounded(x) == IF InRange(x) THEN x ELSE Inexact

ExecuteOperationNoZeroCheck(a, b, op) ==
    LET scale == Larger(a.e, b.e)
        am == a.m * (10 ^ (scale - a.e))
        bm == b.m * (10 ^ (scale - b.e))
    IN  CASE op = "+" -> IF IsNaN(a) \/ IsNaN(b) THEN NaN ELSE Bounded(Num(am + bm, scale))
          [] op = "-" -> IF IsNaN(a) \/ IsNaN(b) THEN NaN ELSE Bounded(Num(am - bm, scale))
          [] op = "*" -> IF IsNaN(a) \/ IsNaN(b) THEN NaN
                         ELSE Bounded(Num(a.m * b.m, a.e + b.e))
          [] op = "/" -> IF IsNaN(a) \/ IsNaN(b) \/ b.m = 0 THEN NaN
                         ELSE Quotient(a, b)
          [] op = "%" -> IF IsNaN(a) \/ IsNaN(b) THEN NaN
                         ELSE Bounded(Num(a.m * b.m, a.e + b.e + 2))
          [] OTHER -> b

\* executeOperation(a, b, op), "*" and "/" standing for the signs of
\* multiplication and division
ExecuteOperation(a, b, op) ==
    LET scale == Larger(a.e, b.e)
        am == a.m * (10 ^ (scale - a.e))
        bm == b.m * (10 ^ (scale - b.e))
    IN  CASE op = "+" -> IF IsNaN(a) \/ IsNaN(b) THEN NaN ELSE Bounded(Num(am + bm, scale))
          [] op = "-" -> IF IsNaN(a) \/ IsNaN(b) THEN NaN ELSE Bounded(Num(am - bm, scale))
          [] op = "*" -> IF IsNaN(a) \/ IsNaN(b) THEN NaN
                         ELSE Bounded(Num(a.m * b.m, a.e + b.e))
          [] op = "/" -> IF b.kind = "num" /\ b.m = 0 THEN ErrorResult
                         ELSE IF IsNaN(a) \/ IsNaN(b) THEN NaN
                         ELSE Quotient(a, b)
          [] op = "%" -> IF IsNaN(a) \/ IsNaN(b) THEN NaN
                         ELSE Bounded(Num(a.m * b.m, a.e + b.e + 2))
          [] OTHER -> b

\* Math.round(result * 10000000000) / 10000000000
RoundResult(x) ==
    IF x.kind # "num" \/ x.e <= RoundDecimals THEN x
    ELSE Num((2 * x.m + 10 ^ (x.e - RoundDecimals)) \div (2 * (10 ^ (x.e - RoundDecimals))),
             RoundDecimals)

\* the calculator's state as one record
CalcState ==
    [currentValue |-> caCurrentValue, previousValue |-> caPreviousValue,
     operator |-> caOperator, waitingForOperand |-> caWaiting]

InitialCalc ==
    [currentValue |-> <<"0">>, previousValue |-> EmptyString, operator |-> "null",
     waitingForOperand |-> FALSE]

\* what both inputOperator and calculate do on a division by zero
ErrorState ==
    [currentValue |-> ErrorText, previousValue |-> EmptyString, operator |-> "null",
     waitingForOperand |-> TRUE]

HasPoint(s) == \E i \in 1..Len(s) : s[i] = "."

InputDigitAppendsAlways(st, digit) ==
    IF st.waitingForOperand
    THEN [st EXCEPT !.currentValue = <<digit>>, !.waitingForOperand = FALSE]
    ELSE IF st.currentValue = <<"0">> /\ digit # "."
         THEN [st EXCEPT !.currentValue = <<digit>>]
         ELSE [st EXCEPT !.currentValue = st.currentValue \o <<digit>>]

\* inputDigit(digit)
InputDigitOf(st, digit) ==
    IF st.waitingForOperand
    THEN [st EXCEPT !.currentValue = <<digit>>, !.waitingForOperand = FALSE]
    ELSE IF st.currentValue = <<"0">> /\ digit # "."
         THEN [st EXCEPT !.currentValue = <<digit>>]
         ELSE IF digit = "." /\ HasPoint(st.currentValue)
              THEN st
              ELSE [st EXCEPT !.currentValue = st.currentValue \o <<digit>>]

\* the result of the pending operation on the value shown
PendingResult(st) ==
    ExecuteOperation(ParseFloat(CleanValue(NumberToString(st.previousValue))),
                     ParseFloat(CleanValue(st.currentValue)), st.operator)

\* inputOperator(nextOperator)
InputOperatorOf(st, nextOperator) ==
    LET inputValue == ParseFloat(CleanValue(st.currentValue))
        roundedResult == RoundResult(PendingResult(st))
    IN  IF st.previousValue = EmptyString
        THEN [st EXCEPT !.previousValue = inputValue, !.waitingForOperand = TRUE,
                        !.operator = nextOperator]
        ELSE IF st.operator # "null"
             THEN IF PendingResult(st) = ErrorResult
                  THEN ErrorState
                  ELSE [currentValue |-> NumberToString(roundedResult),
                        previousValue |-> roundedResult,
                        operator |-> nextOperator,
                        waitingForOperand |-> TRUE]
             ELSE [st EXCEPT !.waitingForOperand = TRUE, !.operator = nextOperator]

\* calculate()
CalculateOf(st) ==
    LET roundedResult == RoundResult(PendingResult(st))
    IN  IF st.previousValue # EmptyString /\ st.operator # "null"
        THEN IF PendingResult(st) = ErrorResult
             THEN ErrorState
             ELSE [currentValue |-> NumberToString(roundedResult),
                   previousValue |-> EmptyString,
                   operator |-> "null",
                   waitingForOperand |-> TRUE]
        ELSE st

\* deleteDigit()
DeleteDigitOf(st) ==
    IF Len(st.currentValue) <= 1 \/ st.currentValue = <<"0">>
    THEN [st EXCEPT !.currentValue = <<"0">>]
    ELSE [st EXCEPT !.currentValue = SubSeq(st.currentValue, 1, Len(st.currentValue) - 1)]

\* clear()
ClearOf(st) == InitialCalc

\* the pending operation, if one is to be evaluated, stays within the bounds
WithinBounds(st) ==
    (st.previousValue # EmptyString /\ st.operator # "null")
       => /\ InRange(st.previousValue)
          /\ InRange(ParseFloat(CleanValue(st.currentValue)))
          /\ PendingResult(st) # Inexact

DigitKeys == {"0", "1", "2", "."}

OperatorKeys == {"+", "-", "*", "/", "%"}

CalcFrame == UNCHANGED <<engineVars, fnVars, dbVars, weatherVars, storeVars, handedVars,
                         quizVars, sliderVars>>

\* processAction({action, value}) left the calculator as st
CalcApply(action, value, st) ==
    /\ caKeys < MaxKeys
    /\ caKeys' = caKeys + 1
    /\ caLastKey' = [action |-> action, value |-> value]
    /\ caBefore' = CalcState
    /\ caCurrentValue' = st.currentValue
    /\ caPreviousValue' = st.previousValue
    /\ caOperator' = st.operator
    /\ caWaiting' = st.waitingForOperand
    /\ CalcFrame

InputDigit == \E digit \in DigitKeys : CalcApply("number", digit, InputDigitOf(CalcState, digit))

InputOperator ==
    /\ WithinBounds(CalcState)
    /\ \E nextOperator \in OperatorKeys : 
          CalcApply("operator", nextOperator, InputOperatorOf(CalcState, nextOperator))

Calculate ==
    /\ WithinBounds(CalcState)
    /\ CalcApply("equals", "", CalculateOf(CalcState))

DeleteDigit == CalcApply("delete", "", DeleteDigitOf(CalcState))

Clear == CalcApply("clear", "", ClearOf(CalcState))

\* the module has just been evaluated
CalcInit ==
    /\ EngineAtRest
    /\ FnIdle
    /\ DebounceIdle
    /\ WeatherIdle
    /\ StoreIdle
    /\ HandedIdle
    /\ QuizIdle
    /\ SliderIdle
    /\ caCurrentValue = InitialCalc.currentValue
    /\ caPreviousValue = InitialCalc.previousValue
    /\ caOperator = InitialCalc.operator
    /\ caWaiting = InitialCalc.waitingForOperand
    /\ caKeys = 0
    /\ caLastKey = [action |-> "none", value |-> ""]
    /\ caBefore = InitialCalc

CalcNext ==
    \/ InputDigit
    \/ InputOperator
    \/ Calculate
    \/ DeleteDigit
    \/ Clear

SpecCalc == CalcInit /\ [][CalcNext]_vars

(***************************************************************************)
(* AuroraSlider: the auto-play interval timer.  The browser keeps the set  *)
(* of active interval timers; the slider keeps the id of the one it        *)
(* started last.  init() has bound the event handlers and awaits           *)
(* preloadImages(); events arrive before and after it resolves.            *)
(***************************************************************************)
\* the slider as one record, with the browser's interval timers
SliderState ==
    [autoPlay |-> slAutoPlay, interval |-> slInterval, isPlaying |-> slIsPlaying,
     intervalId |-> slIntervalId, intervals |-> slIntervals, nextId |-> slNextId,
     currentIndex |-> slCurrentIndex, isTransitioning |-> slTransitioning]

\* pauseAutoPlay(); intervalId 0 is null
PauseAutoPlay(st) ==
    IF st.intervalId # 0
    THEN [st EXCEPT !.intervals = {t \in st.intervals : t.id # st.intervalId},
                    !.intervalId = 0]
    ELSE st

\* setInterval(() => this.goToNext(), this.config.interval)
SetInterval(st) ==
    [st EXCEPT !.intervalId = st.nextId,
               !.intervals = st.intervals \cup {[id |-> st.nextId, period |-> st.interval]},
               !.nextId = st.nextId + 1]

StartAutoPlayNoPause(st) ==
    IF ~st.autoPlay THEN st ELSE SetInterval(st)

\* startAutoPlay()
StartAutoPlay(st) ==
    IF ~st.autoPlay THEN st ELSE SetInterval(PauseAutoPlay(st))

\* if (this.isPlaying) this.startAutoPlay()
ResumeAutoPlay(st) == IF st.isPlaying THEN StartAutoPlay(st) ELSE st

\* togglePlayPause()
TogglePlayPauseOf(st) ==
    LET toggled == [st EXCEPT !.isPlaying = ~st.isPlaying]
    IN  IF toggled.isPlaying THEN StartAutoPlay(toggled) ELSE PauseAutoPlay(toggled)

\* updateSpeed(newSpeed)
UpdateSpeedOf(st, newSpeed) == ResumeAutoPlay([st EXCEPT !.interval = newSpeed])

\* goToSlide(index); the timeout that ends the transition is TransitionEnds
GoToSlide(st, index) ==
    IF st.isTransitioning \/ index = st.currentIndex THEN st
    ELSE IF index < 0 \/ index >= MaxSlides THEN st
    ELSE [st EXCEPT !.isTransitioning = TRUE, !.currentIndex = index]

\* goToNext()
GoToNext(st) == GoToSlide(st, (st.currentIndex + 1) % MaxSlides)

\* goToPrevious()
GoToPrevious(st) == GoToSlide(st, (st.currentIndex - 1 + MaxSlides) % MaxSlides)

SpeedInputs == {1000, 5000}

SliderFrame == UNCHANGED <<engineVars, fnVars, dbVars, weatherVars, storeVars, handedVars,
                           quizVars, calcVars>>

\* a handler left the slider as st; at most MaxIntervals timers are ever set
SliderApply(st, phase, hidden) ==
    /\ st.nextId <= MaxIntervals + 1
    /\ slAutoPlay' = st.autoPlay
    /\ slInterval' = st.interval
    /\ slIsPlaying' = st.isPlaying
    /\ slIntervalId' = st.intervalId
    /\ slIntervals' = st.intervals
    /\ slNextId' = st.nextId
    /\ slCurrentIndex' = st.currentIndex
    /\ slTransitioning' = st.isTransitioning
    /\ slPhase' = phase
    /\ slHidden' = hidden
    /\ SliderFrame

SliderBound == slPhase # "none"

\* init() resumes when preloadImages() has resolved
PreloadResolves ==
    /\ slPhase = "preloading"
    /\ SliderApply(ResumeAutoPlay(SliderState), "ready", slHidden)

\* a click on the play/pause button, or the space bar
TogglePlayPause ==
    /\ SliderBound
    /\ SliderApply(TogglePlayPauseOf(SliderState), slPhase, slHidden)

\* an input event of the speed range
UpdateSpeed ==
    /\ SliderBound
    /\ \E newSpeed \in SpeedInputs :
          SliderApply(UpdateSpeedOf(SliderState, newSpeed), slPhase, slHidden)

\* mouseenter on the container
MouseEnter ==
    /\ SliderBound
    /\ SliderApply(PauseAutoPlay(SliderState), slPhase, slHidden)

\* mouseleave on the container
MouseLeave ==
    /\ SliderBound
    /\ SliderApply(ResumeAutoPlay(SliderState), slPhase, slHidden)

\* visibilitychange: the tab becomes hidden or visible
VisibilityChange ==
    /\ SliderBound
    /\ IF ~slHidden
       THEN SliderApply(PauseAutoPlay(SliderState), slPhase, TRUE)
       ELSE SliderApply(ResumeAutoPlay(SliderState), slPhase, FALSE)

\* TouchHandler's onStart
TouchStart ==
    /\ SliderBound
    /\ SliderApply(PauseAutoPlay(SliderState), slPhase, slHidden)

\* handleTouchEnd / handleMouseUp: nothing without a drag; otherwise the
\* swipe, if the drag was long enough, and onEnd
TouchEnd ==
    /\ SliderBound
    /\ \E dragged \in BOOLEAN, swipe \in {"none", "left", "right"} :
          LET swiped == CASE swipe = "left" -> GoToNext(SliderState)
                          [] swipe = "right" -> GoToPrevious(SliderState)
                          [] OTHER -> SliderState
          IN  IF ~dragged
              THEN SliderApply(SliderState, slPhase, slHidden)
              ELSE SliderApply(ResumeAutoPlay(swiped), slPhase, slHidden)

\* a click on an indicator, on a navigation button, or an arrow key
Navigate ==
    /\ SliderBound
    /\ \E index \in 0..(MaxSlides - 1) :
          SliderApply(GoToSlide(SliderState, index), slPhase, slHidden)

\* an active interval timer fires: goToNext()
IntervalFires ==
    /\ slIntervals # {}
    /\ SliderApply(GoToNext(SliderState), slPhase, slHidden)

\* the timeout goToSlide set after animationDuration
TransitionEnds ==
    /\ slTransitioning
    /\ SliderApply([SliderState EXCEPT !.isTransitioning = FALSE], slPhase, slHidden)

\* new AuroraSlider(element, options), init() waiting for preloadImages()
SliderInit ==
    /\ EngineAtRest
    /\ FnIdle
    /\ DebounceIdle
    /\ WeatherIdle
    /\ StoreIdle
    /\ HandedIdle
    /\ QuizIdle
    /\ CalcIdle
    /\ slAutoPlay \in BOOLEAN
    /\ slInterval = DefaultInterval
    /\ slIsPlaying = slAutoPlay
    /\ slIntervalId = 0
    /\ slIntervals = {}
    /\ slNextId = 1
    /\ slCurrentIndex = 0
    /\ slTransitioning = FALSE
    /\ slPhase = "preloading"
    /\ slHidden = FALSE

SliderNext ==
    \/ PreloadResolves
    \/ TogglePlayPause
    \/ UpdateSpeed
    \/ MouseEnter
    \/ MouseLeave
    \/ VisibilityChange
    \/ TouchStart
    \/ TouchEnd
    \/ Navigate
    \/ IntervalFires
    \/ TransitionEnds

SpecSlider == SliderInit /\ [][SliderNext]_vars

(***************************************************************************)
(* Properties of the task engine                                           *)
(***************************************************************************)
\* C1: after any sequence of engine calls, whatever the outcome of each
\* storage write, the in-memory list equals the list ZenStorage reads back
\* (same tasks, same field values, same order).
C1_MemoryEqualsPersisted == tasks = GetTasks

EngineCall(name) == lastOp'.name = name /\ calls' = calls + 1

\* C2: an updateTask of an existing id whose storage write fails returns
\* false and leaves every task of the collection, the updated one included,
\* exactly as it was.
C2_UpdateRollback ==
    [][(EngineCall("updateTask") /\ lastOp'.found /\ lastOp'.valid /\ ~lastOp'.wrote)
         => (lastOp'.result = "false" /\ tasks' = tasks)]_vars

C2_Witness ==
    /\ lastOp.name = "updateTask" /\ lastOp.found /\ lastOp.valid /\ ~lastOp.wrote
    /\ isStorageAvailable /\ Len(tasks) = 2

\* C3: every task of the collection has completed = true exactly when its
\* completedAt is not null.
C3_CompletionInvariant ==
    \A i \in 1..Len(tasks) : tasks[i].completed <=> (tasks[i].completedAt # NullTs)

\* C4: with the store unavailable, createTask with valid text returns the new
\* task and the task is in the in-memory list; a manager loaded afterwards
\* starts empty.
C4_UnavailableDegrade ==
    /\ (lastOp.name = "createTask" /\ lastOp.valid /\ ~isStorageAvailable)
          => /\ lastOp.result = "task"
             /\ \E i \in 1..Len(tasks) : <<tasks[i]>> = lastRet
    /\ (lastOp.name = "load" /\ ~isStorageAvailable) => tasks = <<>>

\* the text argument is not a string, is blank once trimmed, or is longer
\* than 500 characters once trimmed
IsInvalidText(text) ==
    \/ text.type # "string"
    \/ LET solid == {i \in 1..Len(text.s) : ~IsSpace(text.s[i].c)}
       IN  \/ solid = {}
           \/ LET first == CHOOSE i \in solid : \A j \in solid : i <= j
                  last == CHOOSE i \in solid : \A j \in solid : j <= i
              IN  StrLen(SubSeq(text.s, first, last)) > 500

\* C8: createTask with such a text returns null, changes neither the
\* in-memory nor the persisted collection, and notifies neither taskCreated
\* nor tasksUpdated.
C8_InvalidTextRejected ==
    [][(EngineCall("createTask") /\ IsInvalidText(lastArg'[1]))
         => /\ lastOp'.result = "null"
            /\ tasks' = tasks
            /\ lsTasks' = lsTasks
            /\ \A k \in 1..Len(lastEvents') :
                   lastEvents'[k] \notin {"taskCreated", "tasksUpdated"}]_vars

C8_Witness ==
    /\ lastOp.name = "createTask" /\ lastOp.result = "null"
    /\ lastArg[1] = TextTooLong /\ isStorageAvailable /\ Len(tasks) = 1

\* C9: the ids of the tasks of the collection are pairwise distinct.
C9_UniqueIds ==
    \A i, j \in 1..Len(tasks) : i # j => tasks[i].id # tasks[j].id

Count(list, x) == Cardinality({i \in 1..Len(list) : list[i] = x})

IsPartition(active, completed, all) ==
    /\ Len(all) = Len(tasks)
    /\ Len(active) + Len(completed) = Len(tasks)
    /\ \A i \in 1..Len(active) : ~active[i].completed
    /\ \A i \in 1..Len(completed) : completed[i].completed
    /\ \A i \in 1..Len(tasks) :
          LET t == tasks[i]
          IN  /\ Count(all, t) = Count(tasks, t)
              /\ Count(active, t) = (IF t.completed THEN 0 ELSE Count(tasks, t))
              /\ Count(completed, t) = (IF t.completed THEN Count(tasks, t) ELSE 0)

\* C10: filterTasks('active') holds exactly the tasks that are not completed,
\* filterTasks('completed') exactly the completed ones, filterTasks('all')
\* every task; the first two share no task and together hold each task of
\* the collection exactly once.
C10_FilterPartition ==
    /\ IsPartition(FilterTasks("active"), FilterTasks("completed"), FilterTasks("all"))
    /\ IsPartition(VisibleOf(tasks, "active"), VisibleOf(tasks, "completed"),
                   VisibleOf(tasks, "all"))

C10_Witness ==
    /\ Len(tasks) = 2 /\ settings.autoSort
    /\ tasks[1].completed /\ ~tasks[2].completed
    /\ FilterTasks("all") # tasks

(***************************************************************************)
(* Properties of the persistence layer                                     *)
(***************************************************************************)
\* C5: a read whose key is absent, whose store is unavailable or whose
\* stored string is not JSON returns the caller's fallback and does not
\* raise (storage.get, getTasks with [], getSettings with the defaults).
C5_ReadFallsBack ==
    (/\ lastOp.name \in {"storage.get", "getTasks", "getSettings"}
     /\ lastOp.case \in {"absent", "unavailable", "garbage"})
        => lastOp.result = "fallback"

\* C6: a write never raises; it returns false when the store rejects it or
\* is unavailable, and true only when the value has been persisted
\* (saveTasks, saveSettings, storage.set).
C6_WriteReportsFailure ==
    lastOp.name \in {"storage.set", "saveTasks", "saveSettings"}
        => /\ lastOp.result # "raised"
           /\ lastOp.case \in {"rejected", "unavailable"} => lastOp.result = "false"
           /\ lastOp.result = "true" => lastOp.wrote

\* C7: once the constructor's probe has failed, isStorageAvailable stays
\* false, getTasks returns [], getSettings the defaults, saveTasks,
\* saveSettings and clearAll return false, and none of them touches the
\* stored tasks or settings, also after the store works again.
C7_ProbeFailureIsFinal ==
    /\ [](~isStorageAvailable =>
            /\ lastOp.name = "getTasks" => lastRet = <<<<>>>>
            /\ lastOp.name = "getSettings" => lastRet = <<GetDefaultSettings>>
            /\ lastOp.name \in {"saveTasks", "saveSettings", "clearAll"}
                  => lastOp.result = "false")
    /\ [][~isStorageAvailable =>
            /\ ~isStorageAvailable'
            /\ lsTasks' = lsTasks
            /\ lsSettings' = lsSettings]_vars

C7_Witness ==
    /\ ~isStorageAvailable /\ lsUsable
    /\ lastOp.name = "saveTasks" /\ lastOp.case = "unavailable"
    /\ lastRet # <<<<>>>>

(***************************************************************************)
(* Properties of the task engine: identifiers, fields, events              *)
(***************************************************************************)
HasId(list, id) == \E i \in 1..Len(list) : list[i].id = id

\* C13: a deleteTask of an existing id whose storage write fails returns
\* false and leaves the in-memory collection the same sequence as before the
\* call, the task back at its original index.
C13_DeleteRollback ==
    [][(EngineCall("deleteTask") /\ HasId(tasks, lastArg'[1]) /\ ~lastOp'.wrote)
         => (lastOp'.result = "false" /\ tasks' = tasks)]_vars

NoneOf(events, kinds) == \A k \in 1..Len(events) : events[k] \notin kinds

\* C14: updateTask, deleteTask and toggleTask called with an id no task of
\* the collection has return false, leave the in-memory and the persisted
\* collection unchanged, and notify no taskUpdated, taskDeleted or
\* tasksUpdated.
C14_UnknownIdIsNoOp ==
    [][((EngineCall("updateTask") \/ EngineCall("deleteTask") \/ EngineCall("toggleTask"))
          /\ ~HasId(tasks, lastArg'[1]))
         => /\ lastOp'.result = "false"
            /\ tasks' = tasks
            /\ lsTasks' = lsTasks
            /\ NoneOf(lastEvents', {"taskUpdated", "taskDeleted", "tasksUpdated"})]_vars

C14_Witness ==
    /\ lastOp.name = "deleteTask" /\ lastArg = <<UnknownId>>
    /\ Len(tasks) = 2 /\ lsTasks.kind = "array" /\ isStorageAvailable /\ lsUsable

\* C15: no updateTask or toggleTask call, whatever its update object,
\* changes the id or the createdAt of a task of the collection.
C15_IdAndCreatedAtImmutable ==
    [][(EngineCall("updateTask") \/ EngineCall("toggleTask"))
         => /\ Len(tasks') = Len(tasks)
            /\ \A i \in 1..Len(tasks) :
                   /\ tasks'[i].id = tasks[i].id
                   /\ tasks'[i].createdAt = tasks[i].createdAt]_vars

\* C16: every task of the collection has a priority among low, medium and
\* high, whatever priorities createTask and updateTask were handed.
C16_PriorityInRange ==
    \A i \in 1..Len(tasks) : tasks[i].priority \in {"low", "medium", "high"}

\* a string of 1 to MaxTextLength characters that neither starts nor ends
\* with whitespace and has no two whitespace characters in a row
IsTidyText(s) ==
    /\ \A k \in 1..Len(s) : s[k].n >= 1
    /\ StrLen(s) >= 1
    /\ StrLen(s) <= MaxTextLength
    /\ ~IsSpace(s[1].c)
    /\ ~IsSpace(s[Len(s)].c)
    /\ \A k \in 1..Len(s) :
          IsSpace(s[k].c) => (s[k].n = 1 /\ (k < Len(s) => ~IsSpace(s[k + 1].c)))

\* C17: every task text of the collection is a non-empty string of at most
\* 500 characters with no leading or trailing whitespace and no run of two
\* or more whitespace characters.
C17_TextIsTidy == \A i \in 1..Len(tasks) : IsTidyText(tasks[i].text)

Succeeded == lastOp'.result \in {"task", "true"}

InList(list, task) == \E k \in 1..Len(list) : list[k] = task

\* the list the store holds after the step, as getTasks reads it
StoredAfter == GetTasksOf(TRUE, TRUE, lsTasks')

\* the change the call made is in the list: the created task, the updated
\* task as it now is in memory (saveTasks writes no task whose text is not a
\* non-empty string, so such a task is looked for in no list), no task of
\* the deleted id
ChangeIn(list, name) ==
    CASE name = "createTask" -> InList(list, lastRet'[1])
      [] name = "updateTask" ->
            \E i \in 1..Len(tasks') :
                /\ tasks'[i].id = lastArg'[1]
                /\ WriteValid(tasks'[i]) => InList(list, tasks'[i])
      [] name = "deleteTask" -> ~HasId(list, lastArg'[1])

EventOf(name) ==
    CASE name = "createTask" -> "taskCreated"
      [] name = "updateTask" -> "taskUpdated"
      [] name = "deleteTask" -> "taskDeleted"

DeliveredToAll ==
    LET n == Len(observers')
    IN  /\ Len(delivered') = n * Len(lastEvents')
        /\ \A k \in 1..Len(lastEvents'), i \in 1..n :
               delivered'[(k - 1) * n + i] =
                   [observer |-> observers'[i].fn, event |-> lastEvents'[k]]

Outranks(p, q) ==
    <<p, q>> \in {<<"high", "medium">>, <<"high", "low">>, <<"medium", "low">>}

\* a has to be listed before b
Ahead(a, b) ==
    \/ ~a.completed /\ b.completed
    \/ a.completed = b.completed /\ Outranks(a.priority, b.priority)
    \/ a.completed = b.completed /\ a.priority = b.priority /\ a.createdAt > b.createdAt

SameKeys(a, b) ==
    a.completed = b.completed /\ a.priority = b.priority /\ a.createdAt = b.createdAt

PositionOf(list, task) == CHOOSE k \in 1..Len(list) : list[k] = task

\* C11: with auto-sort on, filterTasks lists incomplete tasks before
\* completed ones, then high before medium before low priority, then the
\* later createdAt first; tasks equal on the three keys keep the order they
\* have in the collection.
C11_SortOrder ==
    (fnName = "filterTasks" /\ fnArgs.autoSort) =>
        /\ \A k \in 1..Len(fnResult) : InList(fnArgs.tasks, fnResult[k])
        /\ \A i, j \in 1..Len(fnResult) :
              i < j =>
                /\ ~Ahead(fnResult[j], fnResult[i])
                /\ SameKeys(fnResult[i], fnResult[j]) =>
                      PositionOf(fnArgs.tasks, fnResult[i])
                          < PositionOf(fnArgs.tasks, fnResult[j])

C11_Witness ==
    /\ fnName = "filterTasks" /\ fnArgs.autoSort /\ fnArgs.filterType = "all"
    /\ Len(fnResult) = 3
    /\ fnResult # fnArgs.tasks
    /\ ~fnResult[1].completed /\ fnResult[3].completed
    /\ SameKeys(fnResult[1], fnResult[2])

(***************************************************************************)
(* Properties of applySearch                                               *)
(***************************************************************************)
\* the whitespace-separated terms of a query: its maximal stretches without
\* whitespace
MaximalTermsOf(query) ==
    {SubSeq(query, i, j) : <<i, j>> \in
        {p \in (1..Len(query)) \X (1..Len(query)) :
            /\ p[1] <= p[2]
            /\ \A k \in p[1]..p[2] : ~IsSpace(query[k])
            /\ (p[1] = 1 \/ IsSpace(query[p[1] - 1]))
            /\ (p[2] = Len(query) \/ IsSpace(query[p[2] + 1]))}}

EveryTermOccurs(task, query) ==
    \A term \in MaximalTermsOf(query) :
        Includes(SearchableText(task), ToLowerCase(term))

\* C12: applySearch(tasks, query) returns exactly the tasks in whose
\* searchable string (text, priority, completed/active, creation date) every
\* whitespace-separated term of the query occurs, case-insensitively, as a
\* substring, and never a task in which some term does not occur.
C12_SearchIsConjunctive ==
    fnName = "applySearch" =>
        LET match(task) == EveryTermOccurs(task, fnArgs.query)
        IN  fnResult = SelectSeq(fnArgs.tasks, match)

(***************************************************************************)
(* Properties of the debounced operations                                  *)
(***************************************************************************)
\* a burst lasts from its first input event until no timer is pending
BurstsOver == IF timers = {} THEN dbBursts ELSE dbBursts - 1

\* C20 as stated: for each debounced operation at most one timer is pending
\* at any time, and the callback has run exactly once for every burst that
\* is over, after its last event, and not at all for a burst in progress.
C20_OncePerBurstAfterIt ==
    /\ Cardinality(timers) <= 1
    /\ dbRuns = BurstsOver

\* C20: for each debounced operation at most one timer is pending at any
\* time; the callback runs exactly once per burst: after the last event of
\* the burst and never during it, except that a function made by
\* WeatherUtils.debounce with immediate set runs it on the first event of
\* the burst and not again.
C20_OncePerBurst ==
    /\ Cardinality(timers) <= 1
    /\ dbKind \in {"app", "editor", "trailing"} => dbRuns = BurstsOver
    /\ dbKind = "immediate" => dbRuns = dbBursts

C20_Witness ==
    /\ dbKind = "app"
    /\ nextTimerId = 4 /\ dbBursts = 1
    /\ timers = {} /\ dbRuns = 1

(***************************************************************************)
(* Properties of what ZenStorage reads back                                *)
(***************************************************************************)
\* an entry of the shape a task has: not null, a string as id, a string as
\* text
IsWellFormed(e) ==
    /\ e # JsNull
    /\ "id" \in DOMAIN e /\ e.id # NumberId
    /\ "text" \in DOMAIN e /\ e.text \notin {NumberText, UndefinedText}

\* C21: getTasks on a stored array that mixes well-formed entries with
\* malformed ones (null, no id, an id that is no string, no text, a text
\* that is no string) does not raise and returns exactly the well-formed
\* entries, in the order they are stored in.
C21_MalformedEntriesDropped ==
    (lastOp.name = "getTasks" /\ lastOp.case = "ok")
        => /\ lastOp.result # "raised"
           /\ lastRet[1] = SelectSeq(lsTasks.val, IsWellFormed)

C21_Witness ==
    /\ lastOp.name = "getTasks" /\ lsTasks = MixedArray
    /\ lastRet[1] = <<SampleTask(1, TRUE), SampleTask(0, FALSE)>>

\* C22: getSettings on a stored settings object returns a record that has
\* every key of the defaults, and for every stored key the stored value.
C22_DefaultsMergedUnderStored ==
    (lastOp.name = "getSettings" /\ lastOp.case = "ok" /\ lsSettings.kind = "object")
        => /\ DOMAIN GetDefaultSettings \subseteq DOMAIN lastRet[1]
           /\ \A k \in DOMAIN lsSettings.val : lastRet[1][k] = lsSettings.val[k]
           /\ \A k \in DOMAIN GetDefaultSettings \ DOMAIN lsSettings.val :
                  lastRet[1][k] = GetDefaultSettings[k]

C22_Witness ==
    /\ lastOp.name = "getSettings" /\ lastOp.case = "ok"
    /\ lsSettings = StringifyObject([autoSort |-> FALSE])
    /\ lastRet[1].autoSort = FALSE /\ lastRet[1].theme = "zen"

\* a task as the engine makes them: a string id, a tidy text, a priority of
\* the three, completedAt set exactly when completed
IsValidTask(t) ==
    /\ DOMAIN t = DOMAIN SampleTask(0, FALSE)
    /\ IsStringId(t.id)
    /\ IsTidyText(t.text)
    /\ t.priority \in {"low", "medium", "high"}
    /\ (t.completedAt # NullTs) <=> t.completed

\* C23: after saveTasks(list) returned true for a list of valid tasks,
\* getTasks() returns a list equal to it: length, order and every field.
C23_SaveThenGetRoundTrip ==
    (/\ lastOp.name = "saveTasks" /\ lastOp.result = "true"
     /\ \A k \in 1..Len(lastRet[1]) : IsValidTask(lastRet[1][k]))
        => GetTasksOf(TRUE, TRUE, lsTasks) = lastRet[1]

C23_Witness ==
    /\ lastOp.name = "saveTasks" /\ lastOp.result = "true"
    /\ lastRet[1] = <<SampleTask(0, FALSE), SampleTask(1, TRUE)>>
    /\ GetTasksOf(TRUE, TRUE, lsTasks) = lastRet[1]

(***************************************************************************)
(* Properties of getStats and toggleTask                                   *)
(***************************************************************************)
CountWhere(list, done) == Cardinality({i \in 1..Len(list) : list[i].completed = done})

\* C25: getStats() changes neither the collection nor the store and returns
\* total = the number of tasks, completed = the number of tasks whose
\* completed is true, active = the number whose completed is false, with
\* total = completed + active.
C25_StatsCountTheCollection ==
    [][EngineCall("getStats")
          => /\ UNCHANGED <<tasks, lsTasks, lsSettings, lsState>>
             /\ lastRet'[1].total = Len(tasks)
             /\ lastRet'[1].completed = CountWhere(tasks, TRUE)
             /\ lastRet'[1].active = CountWhere(tasks, FALSE)
             /\ lastRet'[1].total = lastRet'[1].completed + lastRet'[1].active]_vars

C25_Witness ==
    /\ lastOp.name = "getStats"
    /\ Len(tasks) = 1 /\ tasks[1].completed
    /\ lastRet[1].total = 1 /\ lastRet[1].completed = 1 /\ lastRet[1].active = 0

\* the tasks of list other than the one at index i are those of before
OthersKept(list, before, i) ==
    /\ Len(list) = Len(before)
    /\ \A j \in 1..Len(before) : j # i => list[j] = before[j]

\* C26: a toggleTask(id) of an existing task whose write succeeds flips
\* completed and leaves the collection and the store as
\* updateTask(id, {completed: !current}) does; a second toggle brings
\* completed back to what it was, with completedAt null exactly when the
\* task is not completed, when its write succeeds too; no other task
\* changes in either.
C26_ToggleFlips ==
    [][(EngineCall("toggleTask") /\ lastOp'.found /\ lastOp'.wrote)
          => LET i == FindIndex(tasks, lastArg'[1])
                 u == UpdateTaskOp(tasks, lsTasks, lastArg'[1],
                                   [completed |-> ~tasks[i].completed], TRUE)
                 again == ToggleTaskOp(tasks', lsTasks', lastArg'[1], TRUE)
             IN  /\ tasks'[i].completed = ~tasks[i].completed
                 /\ tasks' = u.tasks /\ lsTasks' = u.raw /\ lastEvents' = u.events
                 /\ lastOp'.result \in {u.result, "raised"}
                 /\ OthersKept(tasks', tasks, i)
                 /\ again.wrote
                       => /\ again.tasks[i].completed = tasks[i].completed
                          /\ (again.tasks[i].completedAt = NullTs)
                                <=> ~again.tasks[i].completed
                          /\ OthersKept(again.tasks, tasks, i)]_vars

C26_Witness ==
    /\ lastOp.name = "toggleTask" /\ lastOp.found /\ lastOp.wrote
    /\ Len(tasks) = 2
    /\ tasks[2].id = lastArg[1] /\ tasks[1].id # lastArg[1]
    /\ tasks[2].completed /\ tasks[2].completedAt # NullTs
    /\ ToggleTaskOp(tasks, lsTasks, lastArg[1], TRUE).wrote

(***************************************************************************)
(* Properties of the weather widget                                        *)
(***************************************************************************)
\* C27: at most one weather load is waiting for its fetch at any time, and
\* isLoading is true for as long as the load that set it is waiting: a
\* refreshWeatherData or changeToRandomLocation called meanwhile is skipped
\* and leaves isLoading alone, whatever the interleaving of user refreshes,
\* retry timers, error-recovery timers and auto-refresh ticks.
C27_SingleLoadInFlight ==
    /\ Len(wxLoads) <= 1
    /\ wxLoads # <<>> => wxLoading

\* C28: when a refresh has failed and every retry of it fails too, no
\* retry is pending once RETRY_ATTEMPTS retries in a row have failed, and
\* retryCount is 0 then.
C28_RetriesBounded ==
    wxFailedRetries >= RETRY_ATTEMPTS
        => /\ \A k \in 1..Len(wxTimers) : wxTimers[k].kind # "retry"
           /\ wxRetryCount = 0

(***************************************************************************)
(* Properties of the minimal Store                                         *)
(***************************************************************************)
\* C29: when the store holds nothing under zen-tasker:state at module load,
\* the Store starts with no tasks and the filter 'all': visible() and
\* stats() return (an empty list, zero counts) rather than raise, and an
\* add of a non-blank title whose write succeeds returns the new task,
\* which is then the first element of visible().
C29_AbsentKeyStartsEmpty ==
    stLoaded = "absent"
        => /\ stState # JsNull
           /\ stOp.name = "load" => stState = InitialState
           /\ stOp.name \in {"visible", "stats"} => stOp.result = "value"
           /\ (stOp.name = "add" /\ ~stOp.blank /\ stOp.quotaOk)
                 => /\ stOp.result = "value"
                    /\ stState.tasks[1] = stRet[1]
                    /\ StoreVisibleOf([stState EXCEPT !.filter = "all"], lsState).ret[1][1]
                           = stRet[1]

(***************************************************************************)
(* Properties of the values handed out                                     *)
(***************************************************************************)
\* C24: what the engine hands out is a snapshot: when the caller changes
\* the handed array or a field of a handed task, no task of the in-memory
\* collection (the manager's, the Store's) changes.
C24_HandedValuesAreSnapshots ==
    [][(hdSource' = hdSource /\ hdValue' # hdValue)
          => (tasks' = tasks /\ stState' = stState)]_vars

(***************************************************************************)
(* Properties of renderTasks                                               *)
(***************************************************************************)
\* C30: with auto-sort on and the filter manager as constructed, the list
\* renderTasks draws has every task that is not completed before every
\* completed one.
C30_IncompleteFirst ==
    (fnName = "renderTasks" /\ fnArgs.autoSort /\ fnArgs.config = InitialConfig)
        => \A i, j \in 1..Len(fnResult) :
              (fnResult[i].completed /\ ~fnResult[j].completed) => j < i

(***************************************************************************)
(* Properties of clearCompleted                                            *)
(***************************************************************************)
\* C31: clearCompleted() returns the number of tasks it removed from the
\* collection, whatever the outcome of each storage write; when it removed
\* every completed task none remains and the tasks that are not completed
\* are those of before, in the same order.
C31_ClearedCountIsRemoved ==
    [][(EngineCall("clearCompleted") /\ lastOp'.result # "raised")
          => /\ lastRet'[1] = Len(tasks) - Len(tasks')
             /\ Len(SelectSeq(tasks, IsCompleted)) = Len(tasks) - Len(tasks')
                   => /\ SelectSeq(tasks', IsCompleted) = <<>>
                      /\ SelectSeq(tasks', IsActive) = SelectSeq(tasks, IsActive)]_vars

(***************************************************************************)
(* Properties of the quiz                                                  *)
(***************************************************************************)
\* C32: in every reachable state of the quiz the score is 10 times the
\* number of entries of answers that are correct, the correctCount that
\* calculateResults reports.
C32_ScoreIsTenPerCorrect ==
    qzScreen # "none" => qzScore = 10 * CalculateResults(QuizState).correctCount

(***************************************************************************)
(* Properties of the calculator                                            *)
(***************************************************************************)
\* a key of the given action was pressed last
Pressed(action) == caKeys > 0 /\ caLastKey.action = action

\* the last key had a division by zero to evaluate
DividedByZero ==
    /\ Pressed("operator") \/ Pressed("equals")
    /\ caBefore.previousValue # EmptyString
    /\ caBefore.operator = "/"
    /\ ParseFloat(caBefore.currentValue) = Num(0, 0)

\* C33: a division by zero, evaluated by calculate() or by a chained
\* inputOperator(), leaves currentValue 'Error', previousValue '', operator
\* null and waitingForOperand true; the digit typed next replaces 'Error'
\* and starts a new operand.
C33_DivisionByZeroIsError ==
    /\ DividedByZero => CalcState = ErrorState
    /\ (Pressed("number") /\ caBefore = ErrorState)
          => /\ caCurrentValue = <<caLastKey.value>>
             /\ caWaiting = FALSE
             /\ caPreviousValue = EmptyString
             /\ caOperator = "null"

C33_WitnessChained == DividedByZero /\ Pressed("operator") /\ CalcState = ErrorState

C33_Witness == Pressed("number") /\ caBefore = ErrorState /\ caCurrentValue = <<"1">>

Points(s) == Len(SelectSeq(s, LAMBDA c : c = "."))

\* a '.' was typed last while currentValue had one already
PointTypedAgain ==
    Pressed("number") /\ caLastKey.value = "." /\ HasPoint(caBefore.currentValue)

\* C34 as stated: a '.' typed when currentValue already contains one leaves
\* the whole calculator state unchanged.
C34_PointAlwaysIgnored == PointTypedAgain => CalcState = caBefore

\* C34: currentValue never contains more than one decimal point; a '.' typed
\* when currentValue already contains one, the calculator not waiting for a
\* new operand, leaves the whole calculator state unchanged.
C34_AtMostOnePoint ==
    /\ Points(caCurrentValue) <= 1
    /\ (PointTypedAgain /\ ~caBefore.waitingForOperand) => CalcState = caBefore

C34_Witness ==
    PointTypedAgain /\ ~caBefore.waitingForOperand /\ caCurrentValue = <<"1", ".">>

\* C35: currentValue is always 'Error' or a string that parses to a finite
\* number, and previousValue is always '' or a finite number.
C35_NeverNaN ==
    /\ caCurrentValue = ErrorText \/ ParseFloat(caCurrentValue).kind = "num"
    /\ caPreviousValue.kind \in {"empty", "num"}

(***************************************************************************)
(* Properties of the slider                                                *)
(***************************************************************************)
\* C36: in every reachable state of the slider at most one auto-play
\* interval timer is active, and none is active while isPlaying is false.
C36_AtMostOneAutoPlayTimer ==
    /\ Cardinality(slIntervals) <= 1
    /\ ~slIsPlaying => slIntervals = {}

C36_Witness == slIsPlaying /\ Cardinality(slIntervals) = 1 /\ slNextId > 2

====
